---- MODULE Spec2Model ----
(***************************************************************************)
(* Model of the repository layer of git-next: Repository and OperationLog  *)
(* (crates/gitnext-operations/src/repository.rs) over a Storage backend    *)
(* (crates/gitnext-storage/src/sqlite.rs).                                 *)
(*                                                                         *)
(* A handler is a sequence of storage calls.  Its model threads a record   *)
(*   s = [objects, refs, pos, chain, n, err]                               *)
(* through those calls: objects and refs are the storage maps, pos and     *)
(* chain are OperationLog.current_position and OperationLog.log_chain, n   *)
(* is the index of the storage call that fails (0: none fails) and err is  *)
(* the error the handler is returning ("" while it runs).  After an error  *)
(* every later call is skipped, which is Rust's `?`.                       *)
(*                                                                         *)
(* SpecConc runs Repository::commit one storage call at a time for two     *)
(* concurrent callers.  SpecStorage drives MemoryStorage                   *)
(* (crates/gitnext-storage/src/memory.rs) and SqliteStorage, with their    *)
(* transactions, by one script of storage calls.                           *)
(* SpecTxn commits two transactions of one storage concurrently.           *)
(* SpecDerive, SpecTree and SpecSignature apply CompatHashDeriver,         *)
(* Tree::new with store_object, and format_signature                       *)
(* (crates/gitnext-core/src/lib.rs) to bounded inputs.                     *)
(* SpecCached and SpecCachedSeq step the reference calls of a              *)
(* CachedBackend over a SqliteBackend (crates/gitnext-storage/src/lib.rs,  *)
(* crates/gitnext-storage-sqlite/src/lib.rs), SpecLocks the RwLocks of a   *)
(* MemoryStorage shared by three tasks, and SpecBatch the reads of a       *)
(* BatchReader.                                                            *)
(*                                                                         *)
(* Option<T> is a sequence: <<>> is None and <<x>> is Some(x).             *)
(* Storage::update_ref writes ReferenceTarget::Direct only (sqlite.rs binds *)
(* target_type 0), so a reference is a name with the ObjectId it points to. *)
(***************************************************************************)
EXTENDS Integers, Sequences, FiniteSets, TLC

\* Log entries one behaviour may create, the init entry included.
MaxUuid == 3
\* Commit objects the caller may create: commit contents 1..MaxCommit.
MaxCommit == 1
\* compact calls in one behaviour.
MaxCompact == 1
\* A fault may hit storage call 1..MaxCall of a handler.
MaxCall == 12
\* Storage faults injected in one behaviour.
MaxFaults == 1
\* Transactions begun in one behaviour of the storage backends.
MaxTxn == 1
\* Operations staged in one transaction.
MaxStaged == 2
\* Entries passed to Tree::new.
MaxEntries == 2
\* Signature.timezone_offset is within -MaxOffset..MaxOffset.
MaxOffset == 1440
\* Calls one task makes on the shared MemoryStorage.
MaxOps == 1
\* Hashes in one read_objects call, and the concurrency of a BatchReader.
MaxBatch == 2
MaxConcurrency == 2

BranchNames == {"main", "a"}

VARIABLES objects, refs, current_position, log_chain, nextUuid, ret, before, seq, faults,
          compactions, inflight, base, observed, mem, sql, memT, sqlT, history, txns,
          cache, inner, ref_cache, calls, locks, tasks, transactions,
          reader

vars == <<objects, refs, current_position, log_chain, nextUuid, ret, before, seq, faults,
          compactions, inflight, base, observed, mem, sql, memT, sqlT, history, txns,
          cache, inner, ref_cache, calls, locks, tasks, transactions,
          reader>>

\* The two storage backends driven by one script, their open transaction,
\* the history of the script (what load_object returned, the targets written
\* to each reference) and the transactions begun; and the cache of the
\* CompatHashDeriver, which no repository or storage call touches.
storageVars == <<mem, sql, memT, sqlT, history, txns, cache>>

\* A CachedBackend over a SqliteBackend: the tables of the inner backend, the
\* reference cache, and each task's call in flight; and the call in flight
\* of a BatchReader over the SqliteBackend.
backendVars == <<inner, ref_cache, calls, reader>>

\* A MemoryStorage shared by concurrent tasks: who holds each of its three
\* RwLocks, each task's call in flight and its open transaction, and the
\* registry of active transactions.
lockVars == <<locks, tasks, transactions>>

-----------------------------------------------------------------------------
(* Objects and their content addresses *)

NoErr == ""

Blob(bytes) == [kind |-> "blob", payload |-> bytes]

\* The empty tree of init and the commits: payload 0 is the initial commit.
EmptyTree == [kind |-> "tree", payload |-> <<>>]

\* The caller's commit contents are a fixed family: content k has the tree,
\* parent and message below (author and committer are part of the message).
CommitId(k) == "commit-" \o ToString(k)

CommitParents(k) == IF k = 0 THEN <<>> ELSE <<CommitId(k - 1)>>

CommitObject(k) ==
    [kind |-> "commit",
     payload |-> [tree |-> "tree-0", parents |-> CommitParents(k), message |-> k]]

\* canonical_hash is a collision-free digest of the object's content.  A log
\* entry's digest is named by the entry's uuid: no two entries share a uuid.
canonical_hash(o) ==
    CASE o.kind = "tree" /\ o.payload = <<>> -> "tree-0"
      [] o.kind = "tree" /\ o.payload # <<>> -> "tree-" \o ToString(o.payload)
      [] o.kind = "commit" -> CommitId(o.payload.message)
      [] o.kind = "blob" /\ o.payload.t = "name" -> "name-" \o o.payload.v
      [] o.kind = "blob" /\ o.payload.t = "chain" -> "chain-" \o ToString(o.payload.v)
      [] o.kind = "blob" /\ o.payload.t = "entry" -> "log-" \o ToString(o.payload.v.id)

branch_ref(name) == "refs/heads/" \o name

log_ref(id) == "refs/logs/operations/" \o ToString(id)

current_branch_ref == "refs/gitnext/current-branch"

chain_ref == "refs/logs/chain"

-----------------------------------------------------------------------------
(* Storage calls *)

Failed(s) == s.err # NoErr

Fail(s, e) == IF Failed(s) THEN s ELSE [s EXCEPT !.err = e]

\* One round trip to the backend: the n-th one of the handler fails.
Tick(s) ==
    IF Failed(s) THEN s
    ELSE IF s.n = 1 THEN [s EXCEPT !.err = "Backend", !.n = 0]
    ELSE IF s.n = 0 THEN s
    ELSE [s EXCEPT !.n = s.n - 1]

\* Mutant of store_object: a plain INSERT, refused for an id already stored.
store_object_insert_only(s, id, object) ==
    IF Failed(s) THEN s
    ELSE IF canonical_hash(object) # id THEN Fail(s, "CorruptionDetected")
    ELSE LET t == Tick(s)
         IN  IF Failed(t) THEN t
             ELSE IF id \in DOMAIN t.objects THEN Fail(t, "Backend")
             ELSE [t EXCEPT !.objects = (id :> object) @@ t.objects]

store_object(s, id, object) ==
    IF Failed(s) THEN s
    ELSE IF canonical_hash(object) # id THEN Fail(s, "CorruptionDetected")
    ELSE LET t == Tick(s)
         IN  IF Failed(t) THEN t
             ELSE [t EXCEPT !.objects = (id :> object) @@ t.objects]

\* Mutant of load_object: an object is handed out once.
load_object_once(s, id) ==
    LET t == Tick(s)
    IN  [s |-> [t EXCEPT !.objects = [i \in DOMAIN t.objects \ {id} |-> t.objects[i]]],
         v |-> IF ~Failed(t) /\ id \in DOMAIN s.objects THEN <<s.objects[id]>> ELSE <<>>]

\* load_object: the state after the call and the Option it returns.
load_object(s, id) ==
    LET t == Tick(s)
    IN  [s |-> t,
         v |-> IF ~Failed(t) /\ id \in DOMAIN s.objects THEN <<s.objects[id]>> ELSE <<>>]

\* list_refs: the state after the call and the snapshot it returns.
list_refs(s) ==
    LET t == Tick(s)
    IN  [s |-> t, v |-> IF Failed(t) THEN <<>> ELSE s.refs]

update_ref(s, name, target) ==
    LET t == Tick(s)
    IN  IF Failed(t) THEN t
        ELSE [t EXCEPT !.refs = (name :> target) @@ t.refs]

delete_ref(s, name) ==
    LET t == Tick(s)
    IN  IF Failed(t) THEN t
        ELSE IF name \notin DOMAIN t.refs THEN Fail(t, "RefNotFound")
        ELSE [t EXCEPT !.refs = [r \in DOMAIN t.refs \ {name} |-> t.refs[r]]]

-----------------------------------------------------------------------------
(* MemoryStorage, and the transactions of both backends *)

\* MemoryStorage keeps objects and references in two maps, each behind its
\* RwLock; a call runs under the lock it takes.  The registry of active
\* transactions is written at transaction, commit and rollback and read by
\* no storage call: it is left out.
memory_store_object(s, id, object) ==
    IF canonical_hash(object) # id THEN Fail(s, "CorruptionDetected")
    ELSE [s EXCEPT !.objects = (id :> object) @@ s.objects]

memory_load_object(s, id) ==
    [s |-> s, v |-> IF id \in DOMAIN s.objects THEN <<s.objects[id]>> ELSE <<>>]

memory_list_refs(s) == [s |-> s, v |-> s.refs]

\* Mutant of memory_update_ref: an existing reference keeps its target.
memory_update_ref_keep(s, name, target) == [s EXCEPT !.refs = s.refs @@ (name :> target)]

memory_update_ref(s, name, target) == [s EXCEPT !.refs = (name :> target) @@ s.refs]

\* Storage::delete_ref of MemoryStorage: the reference is removed, and a
\* missing one is RefNotFound.
memory_delete_ref(s, name) ==
    IF name \notin DOMAIN s.refs THEN Fail(s, "RefNotFound")
    ELSE [s EXCEPT !.refs = [r \in DOMAIN s.refs \ {name} |-> s.refs[r]]]

\* MemoryTransaction::new and SqliteTransaction::new: nothing staged.
MemoryTransaction == [staged_objects |-> <<>>, staged_refs |-> <<>>]

SqliteTransaction == [staged_operations |-> <<>>]

\* Mutant of memory_tx_store_object: the id is not checked against the hash.
memory_tx_store_object_unchecked(t, id, object) ==
    [t |-> [t EXCEPT !.staged_objects = (id :> object) @@ t.staged_objects], err |-> NoErr]

\* A transaction call returns the transaction after it and the call's error.
memory_tx_store_object(t, id, object) ==
    IF canonical_hash(object) # id THEN [t |-> t, err |-> "CorruptionDetected"]
    ELSE [t |-> [t EXCEPT !.staged_objects = (id :> object) @@ t.staged_objects],
          err |-> NoErr]

\* Mutant of memory_tx_update_ref: the first update staged for a name wins.
memory_tx_update_ref_keep_first(t, name, target) ==
    [t |-> [t EXCEPT !.staged_refs = t.staged_refs @@ (name :> target)], err |-> NoErr]

memory_tx_update_ref(t, name, target) ==
    [t |-> [t EXCEPT !.staged_refs = (name :> target) @@ t.staged_refs], err |-> NoErr]

\* Mutant of memory_tx_commit: the staged objects replace the stored ones.
memory_tx_commit_replace(s, t) ==
    [s EXCEPT !.objects = t.staged_objects, !.refs = t.staged_refs @@ s.refs]

\* Mutant of memory_tx_commit: the staged objects are not applied.
memory_tx_commit_refs_only(s, t) == [s EXCEPT !.refs = t.staged_refs @@ s.refs]

\* commit holds the write locks of objects and of references over both loops.
memory_tx_commit(s, t) ==
    [s EXCEPT !.objects = t.staged_objects @@ s.objects,
              !.refs = t.staged_refs @@ s.refs]

sqlite_tx_store_object(t, id, object) ==
    IF canonical_hash(object) # id THEN [t |-> t, err |-> "CorruptionDetected"]
    ELSE [t |-> [t EXCEPT !.staged_operations =
                     Append(@, [op |-> "StoreObject", id |-> id, object |-> object])],
          err |-> NoErr]

sqlite_tx_update_ref(t, name, target) ==
    [t |-> [t EXCEPT !.staged_operations =
               Append(@, [op |-> "UpdateRef", name |-> name, target |-> target])],
     err |-> NoErr]

RECURSIVE sqlite_tx_execute(_, _)
\* The staged operations run in order, each an INSERT OR REPLACE.
sqlite_tx_execute(s, ops) ==
    IF ops = <<>> THEN s
    ELSE LET o == Head(ops)
             s1 == IF o.op = "StoreObject"
                   THEN [s EXCEPT !.objects = (o.id :> o.object) @@ s.objects]
                   ELSE [s EXCEPT !.refs = (o.name :> o.target) @@ s.refs]
         IN  sqlite_tx_execute(s1, Tail(ops))

\* commit runs the staged operations in one SQLite transaction: the tables
\* other connections read change at tx.commit, all at once.
sqlite_tx_commit(s, t) == sqlite_tx_execute(s, t.staged_operations)

-----------------------------------------------------------------------------
(* Repository helpers *)

\* String::from_utf8_lossy of a blob's bytes: only a name blob is a name.
from_utf8_lossy(bytes) == IF bytes.t = "name" THEN bytes.v ELSE "?"

NameBlob(name) == Blob([t |-> "name", v |-> name])

\* Repository::head: every stored HEAD is direct.
head(s) ==
    LET r == list_refs(s)
    IN  IF Failed(r.s) THEN [s |-> r.s, v |-> <<>>]
        ELSE IF "HEAD" \in DOMAIN r.v THEN [s |-> r.s, v |-> <<r.v["HEAD"]>>]
        ELSE [s |-> Fail(r.s, "RefNotFound"), v |-> <<>>]

\* head().await.ok(): an error becomes None and the handler goes on.
head_ok(s) ==
    LET r == head(s)
    IN  IF Failed(s) THEN [s |-> s, v |-> <<>>]
        ELSE [s |-> [r.s EXCEPT !.err = NoErr], v |-> r.v]

get_all_refs(s) == list_refs(s)

\* Mutant of get_current_branch: a repository that tracks no branch is on main.
get_current_branch_main(s) ==
    LET r == list_refs(s)
    IN  [s |-> r.s, v |-> <<"main">>]

\* Mutant of get_current_branch: the tracking reference is not consulted.
get_current_branch_detached(s) ==
    LET r == list_refs(s)
    IN  [s |-> r.s, v |-> <<>>]

get_current_branch(s) ==
    LET r == list_refs(s)
    IN  IF Failed(r.s) THEN [s |-> r.s, v |-> <<>>]
        ELSE IF current_branch_ref \in DOMAIN r.v
        THEN LET l == load_object(r.s, r.v[current_branch_ref])
             IN  IF Failed(l.s) THEN [s |-> l.s, v |-> <<>>]
                 ELSE IF l.v # <<>> /\ l.v[1].kind = "blob"
                 THEN [s |-> l.s, v |-> <<from_utf8_lossy(l.v[1].payload)>>]
                 ELSE [s |-> l.s, v |-> <<>>]
        ELSE [s |-> r.s, v |-> <<>>]

RepositoryState(h, rs) == [head |-> h, refs |-> rs, index_state |-> <<>>]

LogEntry(id, operation, before_state, after_state, command, args) ==
    [id |-> id, operation |-> operation, before_state |-> before_state,
     after_state |-> after_state,
     command_intent |-> [command |-> command, args |-> args, working_directory |-> "."]]

OpCommit(before_head, after_head, tree, message, parents) ==
    [kind |-> "Commit", before_head |-> before_head, after_head |-> after_head,
     tree |-> tree, message |-> message, parents |-> parents]

OpCreateBranch(name, target, before_refs) ==
    [kind |-> "CreateBranch", name |-> name, target |-> target, before_refs |-> before_refs]

OpDeleteBranch(name, deleted_target, before_refs) ==
    [kind |-> "DeleteBranch", name |-> name, deleted_target |-> deleted_target,
     before_refs |-> before_refs]

OpSwitchBranch(from_branch, to_branch, before_head, after_head) ==
    [kind |-> "SwitchBranch", from_branch |-> from_branch, to_branch |-> to_branch,
     before_head |-> before_head, after_head |-> after_head]

-----------------------------------------------------------------------------
(* OperationLog *)

\* Mutant of update_log_chain_ref: the cursor and the chain are not written.
update_log_chain_ref_skip(s) == s

\* The cursor and the chain, serialized into a blob under refs/logs/chain.
update_log_chain_ref(s) ==
    IF Failed(s) THEN s
    ELSE LET chain_object == Blob([t |-> "chain", v |-> <<s.pos, s.chain>>])
             chain_id == canonical_hash(chain_object)
         IN  update_ref(store_object(s, chain_id, chain_object), chain_ref, chain_id)

\* Mutant of record: the entries after the cursor are kept.
record_keep_suffix(s, entry) ==
    LET log_object == Blob([t |-> "entry", v |-> entry])
        log_id == canonical_hash(log_object)
        s1 == store_object(s, log_id, log_object)
        s2 == update_ref(s1, log_ref(entry.id), log_id)
        s3 == [s2 EXCEPT !.chain = Append(s2.chain, entry.id), !.pos = Len(s2.chain) + 1]
    IN  IF Failed(s2) THEN s2 ELSE update_log_chain_ref(s3)

record(s, entry) ==
    LET log_object == Blob([t |-> "entry", v |-> entry])
        log_id == canonical_hash(log_object)
        s1 == store_object(s, log_id, log_object)
        s2 == update_ref(s1, log_ref(entry.id), log_id)
        kept == IF s2.pos < Len(s2.chain) THEN SubSeq(s2.chain, 1, s2.pos) ELSE s2.chain
        s3 == [s2 EXCEPT !.chain = Append(kept, entry.id), !.pos = Len(kept) + 1]
    IN  IF Failed(s2) THEN s2 ELSE update_log_chain_ref(s3)

load_log_entry(s, entry_id) ==
    LET r == list_refs(s)
    IN  IF Failed(r.s) THEN [s |-> r.s, v |-> <<>>]
        ELSE IF log_ref(entry_id) \in DOMAIN r.v
        THEN LET l == load_object(r.s, r.v[log_ref(entry_id)])
             IN  IF Failed(l.s) THEN [s |-> l.s, v |-> <<>>]
                 ELSE IF l.v # <<>> /\ l.v[1].kind = "blob"
                 THEN IF l.v[1].payload.t = "entry"
                      THEN [s |-> l.s, v |-> <<l.v[1].payload.v>>]
                      ELSE [s |-> Fail(l.s, "Serialization"), v |-> <<>>]
                 ELSE [s |-> l.s, v |-> <<>>]
        ELSE [s |-> r.s, v |-> <<>>]

load_chain(s) ==
    LET r == list_refs(s)
    IN  IF Failed(r.s) THEN r.s
        ELSE IF chain_ref \in DOMAIN r.v
        THEN LET l == load_object(r.s, r.v[chain_ref])
             IN  IF Failed(l.s) THEN l.s
                 ELSE IF l.v # <<>> /\ l.v[1].kind = "blob"
                 THEN IF l.v[1].payload.t = "chain"
                      THEN [l.s EXCEPT !.pos = l.v[1].payload.v[1],
                                       !.chain = l.v[1].payload.v[2]]
                      ELSE Fail(l.s, "Serialization")
                 ELSE l.s
        ELSE r.s

\* OperationLog::can_undo.
can_undo(s) == s.pos > 0

\* Mutant of compact: the cursor is not moved with the entries.
compact_keep_cursor(s, keep_entries) ==
    IF Len(s.chain) <= keep_entries THEN s
    ELSE LET remove_count == Len(s.chain) - keep_entries
             s1 == [s EXCEPT !.chain = SubSeq(s.chain, remove_count + 1, Len(s.chain))]
         IN  update_log_chain_ref(s1)

\* Mutant of compact: the newest entries are removed instead of the oldest.
compact_drop_newest(s, keep_entries) ==
    IF Len(s.chain) <= keep_entries THEN s
    ELSE update_log_chain_ref([s EXCEPT !.chain = SubSeq(s.chain, 1, keep_entries),
                                        !.pos = IF s.pos > keep_entries
                                                THEN keep_entries ELSE s.pos])

compact(s, keep_entries) ==
    IF Len(s.chain) <= keep_entries THEN s
    ELSE LET remove_count == Len(s.chain) - keep_entries
             s1 == [s EXCEPT !.chain = SubSeq(s.chain, remove_count + 1, Len(s.chain)),
                             !.pos = IF s.pos > remove_count
                                     THEN s.pos - remove_count ELSE 0]
         IN  update_log_chain_ref(s1)

\* Mutant of undo_apply: undoing the initial commit resets HEAD to nothing.
undo_apply_reset_head(s, op) ==
    CASE op.kind = "CreateBranch" -> delete_ref(s, branch_ref(op.name))
      [] op.kind = "DeleteBranch" -> update_ref(s, branch_ref(op.name), op.deleted_target)
      [] op.kind = "SwitchBranch" ->
            LET s1 == update_ref(s, "HEAD", op.before_head)
                o == NameBlob(op.from_branch)
            IN  IF op.from_branch # "HEAD"
                THEN update_ref(store_object(s1, canonical_hash(o), o),
                                current_branch_ref, canonical_hash(o))
                ELSE s1
      [] op.kind = "Commit" ->
            IF op.before_head # <<>>
            THEN LET s1 == update_ref(s, "HEAD", op.before_head[1])
                     c == get_current_branch(s1)
                 IN  IF ~Failed(c.s) /\ c.v # <<>>
                     THEN update_ref(c.s, branch_ref(c.v[1]), op.before_head[1])
                     ELSE c.s
            ELSE delete_ref(s, "HEAD")

\* The inverse of the entry's operation, applied by undo.
undo_apply(s, op) ==
    CASE op.kind = "CreateBranch" -> delete_ref(s, branch_ref(op.name))
      [] op.kind = "DeleteBranch" -> update_ref(s, branch_ref(op.name), op.deleted_target)
      [] op.kind = "SwitchBranch" ->
            LET s1 == update_ref(s, "HEAD", op.before_head)
                o == NameBlob(op.from_branch)
            IN  IF op.from_branch # "HEAD"
                THEN update_ref(store_object(s1, canonical_hash(o), o),
                                current_branch_ref, canonical_hash(o))
                ELSE s1
      [] op.kind = "Commit" ->
            IF op.before_head # <<>>
            THEN LET s1 == update_ref(s, "HEAD", op.before_head[1])
                     c == get_current_branch(s1)
                 IN  IF ~Failed(c.s) /\ c.v # <<>>
                     THEN update_ref(c.s, branch_ref(c.v[1]), op.before_head[1])
                     ELSE c.s
            ELSE Fail(s, "CannotUndoInitial")

\* Mutant of undo: an empty history is reported as an error.
undo_unguarded(s) ==
    LET r == IF s.pos = 0 THEN [s |-> Fail(s, "NothingToUndo"), v |-> <<>>]
             ELSE load_log_entry(s, s.chain[s.pos])
        s1 == IF r.v = <<>> THEN Fail(r.s, "LogEntryNotFound") ELSE r.s
    IN  IF Failed(s1) THEN [s |-> s1, v |-> <<>>]
        ELSE LET s2 == undo_apply(s1, r.v[1].operation)
                 s3 == IF Failed(s2) THEN s2
                       ELSE update_log_chain_ref([s2 EXCEPT !.pos = s2.pos - 1])
             IN  [s |-> s3, v |-> IF Failed(s3) THEN <<>> ELSE <<r.v[1].operation>>]

undo(s) ==
    IF s.pos = 0 THEN [s |-> s, v |-> <<>>]
    ELSE LET r == load_log_entry(s, s.chain[s.pos])
             s1 == IF r.v = <<>> THEN Fail(r.s, "LogEntryNotFound") ELSE r.s
         IN  IF Failed(s1) THEN [s |-> s1, v |-> <<>>]
             ELSE LET s2 == undo_apply(s1, r.v[1].operation)
                      s3 == IF Failed(s2) THEN s2
                            ELSE update_log_chain_ref([s2 EXCEPT !.pos = s2.pos - 1])
                  IN  [s |-> s3, v |-> IF Failed(s3) THEN <<>> ELSE <<r.v[1].operation>>]

\* The entry's operation applied again, by redo.
redo_apply(s, op) ==
    CASE op.kind = "CreateBranch" -> update_ref(s, branch_ref(op.name), op.target)
      [] op.kind = "DeleteBranch" -> delete_ref(s, branch_ref(op.name))
      [] op.kind = "SwitchBranch" ->
            LET s1 == update_ref(s, "HEAD", op.after_head)
                o == NameBlob(op.to_branch)
            IN  update_ref(store_object(s1, canonical_hash(o), o),
                           current_branch_ref, canonical_hash(o))
      [] op.kind = "Commit" ->
            LET s1 == update_ref(s, "HEAD", op.after_head)
                c == get_current_branch(s1)
            IN  IF ~Failed(c.s) /\ c.v # <<>>
                THEN update_ref(c.s, branch_ref(c.v[1]), op.after_head)
                ELSE c.s

\* Mutant of redo: the cursor is not advanced.
redo_stay(s) ==
    IF s.pos >= Len(s.chain) THEN [s |-> s, v |-> <<>>]
    ELSE LET r == load_log_entry(s, s.chain[s.pos + 1])
             s1 == IF r.v = <<>> THEN Fail(r.s, "LogEntryNotFound") ELSE r.s
         IN  IF Failed(s1) THEN [s |-> s1, v |-> <<>>]
             ELSE LET s2 == redo_apply(s1, r.v[1].operation)
                      s3 == update_log_chain_ref(s2)
                  IN  [s |-> s3, v |-> IF Failed(s3) THEN <<>> ELSE <<r.v[1].operation>>]

redo(s) ==
    IF s.pos >= Len(s.chain) THEN [s |-> s, v |-> <<>>]
    ELSE LET r == load_log_entry(s, s.chain[s.pos + 1])
             s1 == IF r.v = <<>> THEN Fail(r.s, "LogEntryNotFound") ELSE r.s
         IN  IF Failed(s1) THEN [s |-> s1, v |-> <<>>]
             ELSE LET s2 == redo_apply(s1, r.v[1].operation)
                      s3 == IF Failed(s2) THEN s2
                            ELSE update_log_chain_ref([s2 EXCEPT !.pos = s2.pos + 1])
                  IN  [s |-> s3, v |-> IF Failed(s3) THEN <<>> ELSE <<r.v[1].operation>>]

-----------------------------------------------------------------------------
(* Repository operations *)

init(s, uuid) ==
    LET tree_id == canonical_hash(EmptyTree)
        commit_id == canonical_hash(CommitObject(0))
        s1 == store_object(s, tree_id, EmptyTree)
        s2 == store_object(s1, commit_id, CommitObject(0))
        s3 == update_ref(s2, branch_ref("main"), commit_id)
        s4 == update_ref(s3, "HEAD", commit_id)
        init_state == RepositoryState(<<commit_id>>,
                          (branch_ref("main") :> commit_id) @@ ("HEAD" :> commit_id))
        entry == LogEntry(uuid, OpCommit(<<>>, commit_id, tree_id, 0, <<>>),
                          RepositoryState(<<>>, <<>>), init_state, "init", <<>>)
    IN  IF Failed(s4) THEN s4 ELSE record(s4, entry)

create_branch(s, name, target, uuid) ==
    LET before_refs == get_all_refs(s)
        s1 == update_ref(before_refs.s, branch_ref(name), target)
        after_refs == get_all_refs(s1)
        h1 == head_ok(after_refs.s)
        h2 == head_ok(h1.s)
        entry == LogEntry(uuid, OpCreateBranch(name, target, before_refs.v),
                          RepositoryState(h1.v, before_refs.v),
                          RepositoryState(h2.v, after_refs.v), "branch", <<name>>)
    IN  IF Failed(h2.s) THEN h2.s ELSE record(h2.s, entry)

\* Mutant of switch_branch: the tracking blob is written before the lookup.
switch_branch_eager(s, branch_name, uuid) ==
    LET o == NameBlob(branch_name)
        s0 == store_object(s, canonical_hash(o), o)
        before_head == head(s0)
        lr == list_refs(before_head.s)
        s1 == IF ~Failed(lr.s) /\ branch_ref(branch_name) \notin DOMAIN lr.v
              THEN Fail(lr.s, "RefNotFound") ELSE lr.s
        target_commit == lr.v[branch_ref(branch_name)]
        s2 == update_ref(s1, "HEAD", target_commit)
        s4 == update_ref(s2, current_branch_ref, canonical_hash(o))
        r1 == get_all_refs(s4)
        entry == LogEntry(uuid,
                          OpSwitchBranch("HEAD", branch_name, before_head.v[1], target_commit),
                          RepositoryState(before_head.v, r1.v),
                          RepositoryState(<<target_commit>>, r1.v), "switch", <<branch_name>>)
    IN  IF Failed(s1) THEN s1
        ELSE IF Failed(r1.s) THEN r1.s ELSE record(r1.s, entry)

switch_branch(s, branch_name, uuid) ==
    LET before_head == head(s)
        lr == list_refs(before_head.s)
        s1 == IF ~Failed(lr.s) /\ branch_ref(branch_name) \notin DOMAIN lr.v
              THEN Fail(lr.s, "RefNotFound") ELSE lr.s
        target_commit == lr.v[branch_ref(branch_name)]
        s2 == update_ref(s1, "HEAD", target_commit)
        o == NameBlob(branch_name)
        s3 == store_object(s2, canonical_hash(o), o)
        s4 == update_ref(s3, current_branch_ref, canonical_hash(o))
        r1 == get_all_refs(s4)
        r2 == get_all_refs(r1.s)
        entry == LogEntry(uuid,
                          OpSwitchBranch("HEAD", branch_name, before_head.v[1], target_commit),
                          RepositoryState(before_head.v, r1.v),
                          RepositoryState(<<target_commit>>, r2.v), "switch", <<branch_name>>)
    IN  IF Failed(s1) THEN s1
        ELSE IF Failed(r2.s) THEN r2.s ELSE record(r2.s, entry)

delete_branch(s, branch_name, uuid) ==
    LET before_refs == get_all_refs(s)
        lr == list_refs(before_refs.s)
        s1 == IF ~Failed(lr.s) /\ branch_ref(branch_name) \notin DOMAIN lr.v
              THEN Fail(lr.s, "RefNotFound") ELSE lr.s
        deleted_target == lr.v[branch_ref(branch_name)]
        c == get_current_branch(s1)
        s2 == IF ~Failed(c.s) /\ c.v = <<branch_name>>
              THEN Fail(c.s, "CannotDeleteCurrent") ELSE c.s
        s3 == delete_ref(s2, branch_ref(branch_name))
        after_refs == get_all_refs(s3)
        h1 == head_ok(after_refs.s)
        h2 == head_ok(h1.s)
        entry == LogEntry(uuid, OpDeleteBranch(branch_name, deleted_target, before_refs.v),
                          RepositoryState(h1.v, before_refs.v),
                          RepositoryState(h2.v, after_refs.v), "branch", <<"-d", branch_name>>)
    IN  IF Failed(s1) THEN s1
        ELSE IF Failed(h2.s) THEN h2.s ELSE record(h2.s, entry)

\* Mutant of commit: the operation is not recorded.
commit_unlogged(s, k, uuid) ==
    LET commit_object == CommitObject(k)
        commit_id == canonical_hash(commit_object)
        s1 == store_object(head_ok(s).s, commit_id, commit_object)
        s2 == update_ref(s1, "HEAD", commit_id)
        c == get_current_branch(s2)
    IN  IF ~Failed(c.s) /\ c.v # <<>>
        THEN update_ref(c.s, branch_ref(c.v[1]), commit_id) ELSE c.s

commit(s, k, uuid) ==
    LET before_head == head_ok(s)
        commit_object == CommitObject(k)
        commit_id == canonical_hash(commit_object)
        s1 == store_object(before_head.s, commit_id, commit_object)
        s2 == update_ref(s1, "HEAD", commit_id)
        c == get_current_branch(s2)
        s3 == IF ~Failed(c.s) /\ c.v # <<>>
              THEN update_ref(c.s, branch_ref(c.v[1]), commit_id) ELSE c.s
        r1 == get_all_refs(s3)
        r2 == get_all_refs(r1.s)
        entry == LogEntry(uuid,
                          OpCommit(before_head.v, commit_id, commit_object.payload.tree,
                                   k, commit_object.payload.parents),
                          RepositoryState(before_head.v, r1.v),
                          RepositoryState(<<commit_id>>, r2.v), "commit", <<"-m", ToString(k)>>)
    IN  IF Failed(r2.s) THEN r2.s ELSE record(r2.s, entry)

-----------------------------------------------------------------------------
(* State machine *)

Store(os, rs, p, c, f) ==
    [objects |-> os, refs |-> rs, pos |-> p, chain |-> c, n |-> f, err |-> NoErr]

\* The repository as a handler finds it; storage call f of the handler fails.
Cur(f) == Store(objects, refs, current_position, log_chain, f)

Targets == {CommitId(k) : k \in 0..MaxCommit}

MutOps == {"create_branch", "delete_branch", "switch_branch", "commit"}

\* What a caller can read back: HEAD, the branches and the tracked branch.
Visible(os, rs) ==
    [head |-> head(Store(os, rs, 0, <<>>, 0)).v,
     heads |-> [r \in {branch_ref(b) : b \in BranchNames} \cap DOMAIN rs |-> rs[r]],
     current |-> get_current_branch(Store(os, rs, 0, <<>>, 0)).v]

\* HEAD, get_all_refs and the log position, as the undo property test reads them.
Snapshot(os, rs, p) ==
    [head |-> head(Store(os, rs, 0, <<>>, 0)).v,
     refs |-> get_all_refs(Store(os, rs, 0, <<>>, 0)).v,
     pos |-> p]

NoSnapshot == [head |-> <<>>, refs |-> <<>>, pos |-> 0]

\* The (cursor, chain) pair stored under refs/logs/chain: what open would load.
Persisted(os, rs) ==
    LET s == load_chain(Store(os, rs, 0, <<>>, 0))
    IN  <<s.pos, s.chain>>

NoFault == {0}

AnyFault == IF faults < MaxFaults THEN 0..MaxCall ELSE {0}

\* The handler's outcome s becomes the new state; op(arg) returned s.err or value.
Finish(s, op, arg, value, f) ==
    /\ objects' = s.objects
    /\ refs' = s.refs
    /\ current_position' = s.pos
    /\ log_chain' = s.chain
    /\ nextUuid' = IF op \in MutOps /\ ("log-" \o ToString(nextUuid)) \in DOMAIN s.objects
                   THEN nextUuid + 1 ELSE nextUuid
    /\ ret' = [op |-> op, arg |-> arg, err |-> s.err,
               value |-> IF Failed(s) THEN <<>> ELSE value]
    /\ before' = IF op \in MutOps /\ ~Failed(s)
                 THEN Snapshot(objects, refs, current_position) ELSE NoSnapshot
    /\ faults' = IF f > 0 /\ s.n = 0 THEN faults + 1 ELSE faults
    /\ compactions' = IF op = "compact" THEN compactions + 1 ELSE compactions
    /\ UNCHANGED <<inflight, base, observed>>
    /\ UNCHANGED storageVars
    /\ UNCHANGED <<backendVars, lockVars>>

CreateBranchOp(F) ==
    \E name \in BranchNames, target \in Targets, f \in F :
        /\ nextUuid <= MaxUuid
        /\ Finish(create_branch(Cur(f), name, target, nextUuid),
                  "create_branch", name, <<>>, f)

DeleteBranchOp(F) ==
    \E name \in BranchNames, f \in F :
        /\ nextUuid <= MaxUuid
        /\ Finish(delete_branch(Cur(f), name, nextUuid), "delete_branch", name, <<>>, f)

SwitchBranchOp(F) ==
    \E name \in BranchNames, f \in F :
        /\ nextUuid <= MaxUuid
        /\ Finish(switch_branch(Cur(f), name, nextUuid), "switch_branch", name, <<>>, f)

CommitOp(F) ==
    \E k \in 1..MaxCommit, f \in F :
        /\ nextUuid <= MaxUuid
        /\ Finish(commit(Cur(f), k, nextUuid), "commit", ToString(k), <<>>, f)

UndoOp(F) ==
    \E f \in F :
        LET r == undo(Cur(f)) IN Finish(r.s, "undo", "", r.v, f)

RedoOp(F) ==
    \E f \in F :
        LET r == redo(Cur(f)) IN Finish(r.s, "redo", "", r.v, f)

\* keep_entries above the chain's length behaves as the length does.
CompactOp(F) ==
    \E keep_entries \in 0..Len(log_chain), f \in F :
        /\ compactions < MaxCompact
        /\ Finish(compact(Cur(f), keep_entries), "compact", ToString(keep_entries), <<>>, f)

\* Repository::open on the same storage: a new OperationLog, then load_chain.
OpenOp(F) ==
    \E f \in F :
        Finish(load_chain(Store(objects, refs, 0, <<>>, f)), "open", "", <<>>, f)

\* The callers that run commit concurrently on one Repository; caller p
\* commits content p.
Callers == {1, 2}

\* A commit call that has not started: its position and its local variables.
Idle == [pc |-> "idle", before_head |-> <<>>, r1 |-> <<>>, r2 |-> <<>>]

\* A task with no StorageBackend call in flight; a call in flight holds its
\* position, its arguments and what it returns.
IdleCall == [pc |-> "idle", op |-> "", name |-> "", old |-> <<>>, new |-> "",
             value |-> <<>>, err |-> NoErr]

\* A BatchReader with no read_objects call in flight.
IdleReader == [pc |-> "idle", hashes |-> <<>>, concurrency |-> 0, next |-> 1,
               pending |-> {}, results |-> <<>>]

\* The RwLocks of MemoryStorage, and a lock nobody holds.
LockNames == {"objects", "references", "transactions"}

Unlocked == [writer |-> 0, readers |-> {}]

\* The tasks that share one MemoryStorage; a task between two calls holds
\* its open transaction, if it began one.
Tasks == {1, 2, 3}

IdleTask == [pc |-> "idle", op |-> "", arg |-> <<>>, tx |-> <<>>, err |-> NoErr, n |-> 0]

NoSeq == [phase |-> "ops", n |-> 0, u |-> 0, r |-> 0, after |-> <<>>]

\* Repository::init on an empty storage.
Init ==
    LET s == init(Store(<<>>, <<>>, 0, <<>>, 0), 1)
    IN  /\ objects = s.objects
        /\ refs = s.refs
        /\ current_position = s.pos
        /\ log_chain = s.chain
        /\ nextUuid = 2
        /\ ret = [op |-> "init", arg |-> "", err |-> s.err, value |-> <<>>]
        /\ before = NoSnapshot
        /\ seq = NoSeq
        /\ faults = 0
        /\ compactions = 0
        /\ inflight = [p \in Callers |-> Idle]
        /\ base = <<>>
        /\ observed = <<>>
        /\ mem = [objects |-> <<>>, refs |-> <<>>]
        /\ sql = [objects |-> <<>>, refs |-> <<>>]
        /\ memT = <<>>
        /\ sqlT = <<>>
        /\ history = [loaded |-> <<<<>>, <<>>>>, again |-> {}, written |-> {}]
        /\ txns = 0
        /\ cache = <<>>
        /\ inner = [objects |-> <<>>, refs |-> <<>>]
        /\ ref_cache = <<>>
        /\ calls = [p \in Callers |-> IdleCall]
        /\ locks = [l \in LockNames |-> Unlocked]
        /\ tasks = [t \in Tasks |-> IdleTask]
        /\ transactions = {}
        /\ reader = IdleReader

CreateBranch == CreateBranchOp(NoFault) /\ UNCHANGED seq

DeleteBranch == DeleteBranchOp(NoFault) /\ UNCHANGED seq

SwitchBranch == SwitchBranchOp(NoFault) /\ UNCHANGED seq

Commit == CommitOp(NoFault) /\ UNCHANGED seq

Undo == UndoOp(NoFault) /\ UNCHANGED seq

Redo == RedoOp(NoFault) /\ UNCHANGED seq

Compact == CompactOp(NoFault) /\ UNCHANGED seq

Open == OpenOp(NoFault) /\ UNCHANGED seq

Next ==
    \/ CreateBranch
    \/ DeleteBranch
    \/ SwitchBranch
    \/ Commit
    \/ Undo
    \/ Redo

\* Sequential, fault-free use of one Repository through its public methods.
Spec == Init /\ [][Next]_vars

NextLog ==
    \/ CreateBranch
    \/ DeleteBranch
    \/ SwitchBranch
    \/ Commit
    \/ Undo
    \/ Redo
    \/ Compact
    \/ Open

\* The same, with OperationLog::compact and a reopening of the repository.
SpecLog == Init /\ [][NextLog]_vars

FaultyCreateBranch == CreateBranchOp(AnyFault) /\ UNCHANGED seq

FaultyDeleteBranch == DeleteBranchOp(AnyFault) /\ UNCHANGED seq

FaultySwitchBranch == SwitchBranchOp(AnyFault) /\ UNCHANGED seq

FaultyCommit == CommitOp(AnyFault) /\ UNCHANGED seq

FaultyUndo == UndoOp(AnyFault) /\ UNCHANGED seq

FaultyRedo == RedoOp(AnyFault) /\ UNCHANGED seq

NextFault ==
    \/ FaultyCreateBranch
    \/ FaultySwitchBranch
    \/ FaultyDeleteBranch
    \/ FaultyCommit
    \/ FaultyUndo
    \/ FaultyRedo

\* Sequential use in which up to MaxFaults storage calls fail.
SpecFault == Init /\ [][NextFault]_vars

\* A run of successful operations, then one undo for each, then one redo for each.
SeqPerformed ==
    /\ seq.phase = "ops"
    /\ ret'.err = NoErr
    /\ seq' = [seq EXCEPT !.n = @ + 1, !.after = Visible(objects', refs')]

SeqCreateBranch == CreateBranchOp(NoFault) /\ SeqPerformed

SeqDeleteBranch == DeleteBranchOp(NoFault) /\ SeqPerformed

SeqSwitchBranch == SwitchBranchOp(NoFault) /\ SeqPerformed

SeqCommit == CommitOp(NoFault) /\ SeqPerformed

SeqUndo ==
    /\ seq.phase \in {"ops", "undo"}
    /\ seq.u < seq.n
    /\ UndoOp(NoFault)
    /\ seq' = [seq EXCEPT !.phase = "undo", !.u = @ + 1]

SeqRedo ==
    /\ seq.phase \in {"undo", "redo"}
    /\ seq.u = seq.n
    /\ seq.r < seq.n
    /\ RedoOp(NoFault)
    /\ seq' = [seq EXCEPT !.phase = "redo", !.r = @ + 1]

NextSeq ==
    \/ SeqCreateBranch
    \/ SeqDeleteBranch
    \/ SeqSwitchBranch
    \/ SeqCommit
    \/ SeqUndo
    \/ SeqRedo

SpecSeq == Init /\ [][NextSeq]_vars

-----------------------------------------------------------------------------
(* Concurrent callers: commit runs one storage call at a time *)

\* The next await of caller p's commit.  Every storage call is its own step;
\* record runs under the operation_log mutex and is one step.
CommitStep(p) ==
    LET l == inflight[p]
        s == Cur(0)
        commit_object == CommitObject(p)
        commit_id == canonical_hash(commit_object)
        c == get_current_branch(s)
        entry == LogEntry(nextUuid,
                          OpCommit(l.before_head, commit_id, commit_object.payload.tree,
                                   p, commit_object.payload.parents),
                          RepositoryState(l.before_head, l.r1),
                          RepositoryState(<<commit_id>>, l.r2), "commit", <<"-m", ToString(p)>>)
        t == CASE l.pc = "idle" -> s
               [] l.pc = "store" -> store_object(s, commit_id, commit_object)
               [] l.pc = "head" -> update_ref(s, "HEAD", commit_id)
               [] l.pc = "branch" -> IF c.v # <<>>
                                     THEN update_ref(c.s, branch_ref(c.v[1]), commit_id)
                                     ELSE c.s
               [] l.pc = "refs1" -> s
               [] l.pc = "refs2" -> s
               [] l.pc = "record" -> record(s, entry)
        m == CASE l.pc = "idle" -> [l EXCEPT !.pc = "store", !.before_head = head_ok(s).v]
               [] l.pc = "store" -> [l EXCEPT !.pc = "head"]
               [] l.pc = "head" -> [l EXCEPT !.pc = "branch"]
               [] l.pc = "branch" -> [l EXCEPT !.pc = "refs1"]
               [] l.pc = "refs1" -> [l EXCEPT !.pc = "refs2", !.r1 = get_all_refs(s).v]
               [] l.pc = "refs2" -> [l EXCEPT !.pc = "record", !.r2 = get_all_refs(s).v]
               [] l.pc = "record" -> [l EXCEPT !.pc = "done"]
    IN  /\ l.pc # "done"
        /\ objects' = t.objects
        /\ refs' = t.refs
        /\ current_position' = t.pos
        /\ log_chain' = t.chain
        /\ nextUuid' = IF l.pc = "record" THEN nextUuid + 1 ELSE nextUuid
        /\ inflight' = [inflight EXCEPT ![p] = m]
        /\ base' = IF \A q \in Callers : inflight[q].pc = "idle" THEN <<s>> ELSE base
        /\ UNCHANGED <<ret, before, seq, faults, compactions, observed>>
        /\ UNCHANGED storageVars
        /\ UNCHANGED <<backendVars, lockVars>>

CommitSteps == \E p \in Callers : CommitStep(p)

\* switch_branch called before the concurrent commits start.
ConcSwitchBranch ==
    /\ \A p \in Callers : inflight[p].pc = "idle"
    /\ SwitchBranchOp(NoFault)
    /\ UNCHANGED seq

\* Another caller's list_refs, at any moment.
ReadRefs ==
    /\ observed # refs
    /\ observed' = list_refs(Cur(0)).v
    /\ UNCHANGED <<objects, refs, current_position, log_chain, nextUuid, ret, before, seq,
                   faults, compactions, inflight, base>>
    /\ UNCHANGED storageVars
    /\ UNCHANGED <<backendVars, lockVars>>

NextConc ==
    \/ ConcSwitchBranch
    \/ CommitSteps
    \/ ReadRefs

SpecConc == Init /\ [][NextConc]_vars

-----------------------------------------------------------------------------
(* The storage backends: one script of calls run on MemoryStorage and on
   SqliteStorage, each started empty.  A pair <<m, q>> holds the MemoryStorage
   value first and the SqliteStorage value second. *)

StoredObjects == {NameBlob("x"), NameBlob("y")}

ObjectIds == {canonical_hash(o) : o \in StoredObjects}

RefNames == {"refs/heads/x"}

\* The objects the concurrent tasks store.
LockedObjects == {NameBlob("x")}

\* A backend's maps as the record the storage calls take.
Disk(b) == Store(b.objects, b.refs, 0, <<>>, 0)

\* The script's next call returned: both backends move, the repository does not.
Done(m, q, op, arg, errs, values) ==
    /\ mem' = [objects |-> m.objects, refs |-> m.refs]
    /\ sql' = [objects |-> q.objects, refs |-> q.refs]
    /\ ret' = [op |-> op, arg |-> arg, err |-> errs, value |-> values]
    /\ UNCHANGED <<objects, refs, current_position, log_chain, nextUuid, before, seq,
                   faults, compactions, inflight, base, observed, cache>>
    /\ UNCHANGED <<backendVars, lockVars>>

\* store_object(id, object), the id right or wrong.
StoreObject ==
    \E id \in ObjectIds, object \in StoredObjects :
        LET m == memory_store_object(Disk(mem), id, object)
            q == store_object(Disk(sql), id, object)
        IN  /\ Done(m, q, "store_object", <<id, object>>, <<m.err, q.err>>, <<>>)
            /\ UNCHANGED <<memT, sqlT, history, txns>>

UpdateRef ==
    \E name \in RefNames, target \in ObjectIds :
        LET m == memory_update_ref(Disk(mem), name, target)
            q == update_ref(Disk(sql), name, target)
        IN  /\ Done(m, q, "update_ref", <<name, target>>, <<m.err, q.err>>, <<>>)
            /\ history' = [history EXCEPT !.written = @ \cup {<<name, target>>}]
            /\ UNCHANGED <<memT, sqlT, txns>>

DeleteRef ==
    \E name \in RefNames :
        LET m == memory_delete_ref(Disk(mem), name)
            q == delete_ref(Disk(sql), name)
        IN  /\ Done(m, q, "delete_ref", <<name>>, <<m.err, q.err>>, <<>>)
            /\ UNCHANGED <<memT, sqlT, history, txns>>

\* load_object(id) by any caller.  The history keeps what each backend
\* returned and the ids loaded again after a load that found them.
LoadObject ==
    \E id \in ObjectIds :
        LET m == memory_load_object(Disk(mem), id)
            q == load_object(Disk(sql), id)
        IN  /\ Done(m.s, q.s, "load_object", <<id>>, <<m.s.err, q.s.err>>, <<m.v, q.v>>)
            /\ history' = [history EXCEPT
                   !.loaded = <<IF m.v # <<>> THEN (id :> m.v[1]) @@ @[1] ELSE @[1],
                                IF q.v # <<>> THEN (id :> q.v[1]) @@ @[2] ELSE @[2]>>,
                   !.again = IF id \in DOMAIN history.loaded[1] \cap DOMAIN history.loaded[2]
                             THEN @ \cup {id} ELSE @]
            /\ UNCHANGED <<memT, sqlT, txns>>

\* list_refs by any caller.
ListRefs ==
    LET m == memory_list_refs(Disk(mem))
        q == list_refs(Disk(sql))
    IN  /\ ret.op # "list_refs"
        /\ Done(m.s, q.s, "list_refs", <<>>, <<m.s.err, q.s.err>>, <<m.v, q.v>>)
        /\ UNCHANGED <<memT, sqlT, history, txns>>

\* Storage::transaction on both backends.
Begin ==
    /\ memT = <<>>
    /\ txns < MaxTxn
    /\ memT' = <<MemoryTransaction>>
    /\ sqlT' = <<SqliteTransaction>>
    /\ txns' = txns + 1
    /\ Done(mem, sql, "transaction", <<>>, <<NoErr, NoErr>>, <<>>)
    /\ UNCHANGED history

TxStoreObject ==
    \E id \in ObjectIds, object \in StoredObjects :
        /\ memT # <<>>
        /\ Len(sqlT[1].staged_operations) < MaxStaged
        /\ LET m == memory_tx_store_object(memT[1], id, object)
               q == sqlite_tx_store_object(sqlT[1], id, object)
           IN  /\ memT' = <<m.t>>
               /\ sqlT' = <<q.t>>
               /\ Done(mem, sql, "tx.store_object", <<id, object>>, <<m.err, q.err>>, <<>>)
        /\ UNCHANGED <<history, txns>>

TxUpdateRef ==
    \E name \in RefNames, target \in ObjectIds :
        /\ memT # <<>>
        /\ Len(sqlT[1].staged_operations) < MaxStaged
        /\ LET m == memory_tx_update_ref(memT[1], name, target)
               q == sqlite_tx_update_ref(sqlT[1], name, target)
           IN  /\ memT' = <<m.t>>
               /\ sqlT' = <<q.t>>
               /\ Done(mem, sql, "tx.update_ref", <<name, target>>, <<m.err, q.err>>, <<>>)
        /\ UNCHANGED <<history, txns>>

\* commit consumes the transaction.
TxCommit ==
    /\ memT # <<>>
    /\ memT' = <<>>
    /\ sqlT' = <<>>
    /\ Done(memory_tx_commit(Disk(mem), memT[1]), sqlite_tx_commit(Disk(sql), sqlT[1]),
            "tx.commit", <<memT[1], sqlT[1]>>, <<NoErr, NoErr>>, <<>>)
    /\ history' = [history EXCEPT !.written =
                       @ \cup {<<o.name, o.target>> :
                                 o \in {sqlT[1].staged_operations[i] :
                                           i \in {j \in DOMAIN sqlT[1].staged_operations :
                                                    sqlT[1].staged_operations[j].op = "UpdateRef"}}}]
    /\ UNCHANGED txns

\* rollback discards what was staged and consumes the transaction.
TxRollback ==
    /\ memT # <<>>
    /\ memT' = <<>>
    /\ sqlT' = <<>>
    /\ Done(mem, sql, "tx.rollback", <<memT[1], sqlT[1]>>, <<NoErr, NoErr>>, <<>>)
    /\ UNCHANGED <<history, txns>>

NextStorage ==
    \/ StoreObject
    \/ UpdateRef
    \/ DeleteRef
    \/ LoadObject
    \/ ListRefs
    \/ Begin
    \/ TxStoreObject
    \/ TxUpdateRef
    \/ TxCommit
    \/ TxRollback

SpecStorage == Init /\ [][NextStorage]_vars

-----------------------------------------------------------------------------
(* Two transactions of one storage, committed by two concurrent tasks.  Each
   transaction carries its completed flag; the SqliteTransaction also carries
   tx, the SQLite transaction its commit has begun, as the number of staged
   operations executed in it (<<>> before pool.begin). *)

TxIds == {1, 2}

\* SQLite has one writer: the transaction that executed a statement holds
\* the write lock until its tx.commit, and another writer's statement waits.
Writers == {i \in TxIds : sqlT[i].tx # <<>> /\ sqlT[i].tx[1] > 0 /\ ~sqlT[i].completed}

\* The next step of SqliteTransaction::commit of transaction i can run.
SqlReady(i) ==
    /\ ~sqlT[i].completed
    /\ \/ sqlT[i].tx = <<>>
       \/ sqlT[i].tx # <<>> /\ sqlT[i].tx[1] = Len(sqlT[i].t.staged_operations)
       \/ sqlT[i].tx # <<>> /\ Writers \subseteq {i}

\* storage.transaction() twice, as the two tasks of the test hold them.
TxnOpen ==
    /\ memT = <<>>
    /\ txns = 0
    /\ memT' = [i \in 1..2 |-> [t |-> MemoryTransaction, completed |-> FALSE]]
    /\ sqlT' = [i \in 1..2 |-> [t |-> SqliteTransaction, completed |-> FALSE, tx |-> <<>>]]
    /\ txns' = 2
    /\ Done(mem, sql, "transaction", <<>>, <<NoErr, NoErr>>, <<>>)
    /\ UNCHANGED history

\* A task stages an object in its transaction, before it commits.
TxnStoreObject ==
    \E i \in TxIds, id \in ObjectIds, object \in StoredObjects :
        /\ Len(memT) = 2
        /\ ~memT[i].completed
        /\ ~sqlT[i].completed /\ sqlT[i].tx = <<>>
        /\ Len(sqlT[i].t.staged_operations) < MaxStaged
        /\ LET m == memory_tx_store_object(memT[i].t, id, object)
               q == sqlite_tx_store_object(sqlT[i].t, id, object)
           IN  /\ memT' = [memT EXCEPT ![i].t = m.t]
               /\ sqlT' = [sqlT EXCEPT ![i].t = q.t]
               /\ Done(mem, sql, "tx.store_object", <<i, id, object>>, <<m.err, q.err>>, <<>>)
        /\ UNCHANGED <<history, txns>>

\* MemoryTransaction::commit of task i: one step under the two write locks.
MemCommit ==
    \E i \in TxIds :
        /\ Len(memT) = 2
        /\ ~memT[i].completed
        /\ memT' = [memT EXCEPT ![i].completed = TRUE]
        /\ Done(memory_tx_commit(Disk(mem), memT[i].t), sql, "tx.commit", <<i, "memory">>,
                <<NoErr, NoErr>>, <<>>)
        /\ UNCHANGED <<sqlT, history, txns>>

\* SqliteTransaction::commit of task i, one await at a time: pool.begin, each
\* staged operation, tx.commit.  What the statements wrote shows in the
\* tables at tx.commit.
SqlCommitStep ==
    \E i \in TxIds :
        /\ Len(sqlT) = 2
        /\ SqlReady(i)
        /\ IF sqlT[i].tx = <<>>
           THEN /\ sqlT' = [sqlT EXCEPT ![i].tx = <<0>>]
                /\ Done(mem, sql, "tx.begin", <<i, "sqlite">>, <<NoErr, NoErr>>, <<>>)
           ELSE IF sqlT[i].tx[1] < Len(sqlT[i].t.staged_operations)
           THEN /\ sqlT' = [sqlT EXCEPT ![i].tx = <<@[1] + 1>>]
                /\ Done(mem, sql, "tx.execute", <<i, "sqlite">>, <<NoErr, NoErr>>, <<>>)
           ELSE /\ sqlT' = [sqlT EXCEPT ![i].completed = TRUE]
                /\ Done(mem, sqlite_tx_commit(Disk(sql), sqlT[i].t), "tx.commit",
                        <<i, "sqlite">>, <<NoErr, NoErr>>, <<>>)
        /\ UNCHANGED <<memT, history, txns>>

NextTxn ==
    \/ TxnOpen
    \/ TxnStoreObject
    \/ MemCommit
    \/ SqlCommitStep

SpecTxn == Init /\ [][NextTxn]_vars

-----------------------------------------------------------------------------
(* CompatHashDeriver (crates/gitnext-core/src/lib.rs): Git hashes derived
   from the Git serialization of an object, with a cache. *)

GitHashTypes == {"Sha1", "Sha256"}

\* GitHash::from_git_bytes: the digest of the bytes under the algorithm asked
\* for, a GitHash::Sha1 or a GitHash::Sha256.  A digest is collision-free.
from_git_bytes(bytes, hash_type) == [variant |-> hash_type, digest |-> bytes]

\* serialize_to_git_format of a blob and of a tree: the header "<kind> <len>\0"
\* and the content, which fixes the length.
serialize_to_git_format(object) == <<object.kind, object.payload>>

\* derive_git_hash on a deriver with the given cache: the cache after the
\* call and the hash returned.  The cache is keyed by the ObjectId alone.
derive_git_hash(c, object, hash_type) ==
    LET object_id == canonical_hash(object)
    IN  IF object_id \in DOMAIN c THEN [cache |-> c, v |-> c[object_id]]
        ELSE LET git_hash == from_git_bytes(serialize_to_git_format(object), hash_type)
             IN  [cache |-> (object_id :> git_hash) @@ c, v |-> git_hash]

DerivedObjects == StoredObjects \cup {EmptyTree, NameBlob("main")}

\* derive_git_hash(object, hash_type) on the one deriver.
DeriveGitHash ==
    \E object \in DerivedObjects, hash_type \in GitHashTypes :
        LET r == derive_git_hash(cache, object, hash_type)
        IN  /\ cache' = r.cache
            /\ ret' = [op |-> "derive_git_hash", arg |-> <<object, hash_type>>,
                       err |-> NoErr, value |-> r.v]
            /\ UNCHANGED <<objects, refs, current_position, log_chain, nextUuid, before,
                           seq, faults, compactions, inflight, base, observed, mem, sql,
                           memT, sqlT, history, txns>>
            /\ UNCHANGED <<backendVars, lockVars>>

SpecDerive == Init /\ [][DeriveGitHash]_vars

-----------------------------------------------------------------------------
(* Trees (crates/gitnext-core/src/lib.rs, crates/gitnext-objects/src/lib.rs)
   built by Tree::new and stored in both backends. *)

\* Entry names, as their rank in the byte order String::cmp compares by.
EntryNames == {1, 2}

\* The lists of entries a caller may pass: any order, names repeated or not.
EntryLists ==
    UNION {[1..n -> {[name |-> e, hash |-> canonical_hash(NameBlob("x"))] : e \in EntryNames}] :
             n \in 0..MaxEntries}

\* Tree::new: entries.sort_by(name), a stable sort; nothing is removed.
Tree_new(entries) ==
    LET rank(i) == 1 + Cardinality({j \in DOMAIN entries :
                        \/ entries[j].name < entries[i].name
                        \/ entries[j].name = entries[i].name /\ j < i})
    IN  [kind |-> "tree",
         payload |-> [k \in DOMAIN entries |->
                         entries[CHOOSE i \in DOMAIN entries : rank(i) = k]]]

\* Tree::validate accepts the tree: each name is below the next one.
validate(tree) ==
    \A i \in 2..Len(tree.payload) : ~(tree.payload[i - 1].name >= tree.payload[i].name)

\* store_object(id, GitObject::Tree(Tree::new(entries))) with the tree's id.
StoreTree ==
    \E entries \in EntryLists :
        LET tree == Tree_new(entries)
            id == canonical_hash(tree)
            m == memory_store_object(Disk(mem), id, tree)
            q == store_object(Disk(sql), id, tree)
        IN  /\ Done(m, q, "store_object", <<id, entries>>, <<m.err, q.err>>, <<>>)
            /\ UNCHANGED <<memT, sqlT, history, txns>>

SpecTree == Init /\ [][StoreTree]_vars

-----------------------------------------------------------------------------
(* Signatures in the Git serialization (crates/gitnext-core/src/lib.rs). *)

\* format!("{:+05}", n): the sign, then the decimal digits of |n| padded with
\* zeros to a width of five characters, the sign included.
format_plus_05(n) ==
    LET a == IF n < 0 THEN -n ELSE n
        pad == IF a < 10 THEN "000" ELSE IF a < 100 THEN "00" ELSE IF a < 1000 THEN "0" ELSE ""
    IN  (IF n < 0 THEN "-" ELSE "+") \o pad \o ToString(a)

format_signature(sig) ==
    sig.name \o " <" \o sig.email \o "> " \o ToString(sig.timestamp) \o " "
        \o format_plus_05(sig.timezone_offset)

\* format_signature of a signature with any timezone offset.
FormatSignature ==
    \E m \in -MaxOffset..MaxOffset :
        LET sig == [name |-> "n", email |-> "e", timestamp |-> 0, timezone_offset |-> m]
        IN  /\ ret' = [op |-> "format_signature", arg |-> sig, err |-> NoErr,
                       value |-> format_signature(sig)]
            /\ UNCHANGED <<objects, refs, current_position, log_chain, nextUuid, before,
                           seq, faults, compactions, inflight, base, observed>>
            /\ UNCHANGED storageVars
            /\ UNCHANGED <<backendVars, lockVars>>

SpecSignature == Init /\ [][FormatSignature]_vars

-----------------------------------------------------------------------------
(* CachedBackend (crates/gitnext-storage/src/lib.rs) over SqliteBackend
   (crates/gitnext-storage-sqlite/src/lib.rs): the reference calls of the
   tasks, one await at a time.  Reference::Direct(h) is the hash h. *)

\* The call of task p moves to l; nothing else of the repository changes.
CallStep(p, l) ==
    /\ calls' = [calls EXCEPT ![p] = l]
    /\ UNCHANGED <<objects, refs, current_position, log_chain, nextUuid, ret, before, seq,
                   faults, compactions, inflight, base, observed>>
    /\ UNCHANGED <<storageVars, lockVars, reader>>

\* CachedBackend::update_ref(name, old, new): SqliteBackend::update_ref, then
\* invalidate_ref.  The inner call begins a transaction, reads the reference
\* through the pool when old is Some, executes the INSERT OR REPLACE in the
\* transaction (SQLite lets one transaction write at a time) and commits.
UpdateRefStep(p) ==
    LET l == calls[p]
    IN  \/ /\ l.pc = "idle"
           /\ \E name \in RefNames, old \in {<<>>} \cup {<<h>> : h \in ObjectIds},
                 new \in ObjectIds :
                 CallStep(p, [IdleCall EXCEPT !.pc = "begun", !.op = "update_ref",
                                              !.name = name, !.old = old, !.new = new])
           /\ UNCHANGED <<inner, ref_cache>>
        \/ /\ l.op = "update_ref" /\ l.pc = "begun"
           /\ CallStep(p, IF l.old = <<>> THEN [l EXCEPT !.pc = "checked"]
                          ELSE IF l.name \notin DOMAIN inner.refs
                          THEN [l EXCEPT !.pc = "done", !.err = "RefNotFound"]
                          ELSE IF inner.refs[l.name] # l.old[1]
                          THEN [l EXCEPT !.pc = "done", !.err = "RefUpdateConflict"]
                          ELSE [l EXCEPT !.pc = "checked"])
           /\ UNCHANGED <<inner, ref_cache>>
        \/ /\ l.op = "update_ref" /\ l.pc = "checked"
           /\ \A q \in Callers \ {p} : calls[q].pc # "inserted"
           /\ CallStep(p, [l EXCEPT !.pc = "inserted"])
           /\ UNCHANGED <<inner, ref_cache>>
        \/ /\ l.op = "update_ref" /\ l.pc = "inserted"
           /\ inner' = [inner EXCEPT !.refs = (l.name :> l.new) @@ @]
           /\ CallStep(p, [l EXCEPT !.pc = "invalidate"])
           /\ UNCHANGED ref_cache
        \/ /\ l.op = "update_ref" /\ l.pc = "invalidate"
           /\ ref_cache' = [n \in DOMAIN ref_cache \ {l.name} |-> ref_cache[n]]
           /\ CallStep(p, [l EXCEPT !.pc = "done"])
           /\ UNCHANGED inner

\* CachedBackend::read_ref(name): the cache, then SqliteBackend::read_ref and
\* the insert into the cache.
ReadRefStep(p) ==
    LET l == calls[p]
    IN  \/ /\ l.pc = "idle"
           /\ \E name \in RefNames :
                 CallStep(p, IF name \in DOMAIN ref_cache
                             THEN [IdleCall EXCEPT !.pc = "done", !.op = "read_ref",
                                                   !.name = name,
                                                   !.value = <<ref_cache[name]>>]
                             ELSE [IdleCall EXCEPT !.pc = "miss", !.op = "read_ref",
                                                   !.name = name])
           /\ UNCHANGED <<inner, ref_cache>>
        \/ /\ l.op = "read_ref" /\ l.pc = "miss"
           /\ CallStep(p, IF l.name \in DOMAIN inner.refs
                          THEN [l EXCEPT !.pc = "fetched", !.value = <<inner.refs[l.name]>>]
                          ELSE [l EXCEPT !.pc = "done", !.err = "RefNotFound"])
           /\ UNCHANGED <<inner, ref_cache>>
        \/ /\ l.op = "read_ref" /\ l.pc = "fetched"
           /\ ref_cache' = (l.name :> l.value[1]) @@ ref_cache
           /\ CallStep(p, [l EXCEPT !.pc = "done"])
           /\ UNCHANGED inner

\* CachedBackend::delete_ref(name): the DELETE of SqliteBackend::delete_ref,
\* then invalidate_ref.
DeleteRefStep(p) ==
    LET l == calls[p]
    IN  \/ /\ l.pc = "idle"
           /\ \A q \in Callers \ {p} : calls[q].pc # "inserted"
           /\ \E name \in RefNames :
                 /\ inner' = [inner EXCEPT !.refs = [n \in DOMAIN @ \ {name} |-> @[n]]]
                 /\ CallStep(p, [IdleCall EXCEPT !.pc = "invalidate", !.op = "delete_ref",
                                                 !.name = name])
           /\ UNCHANGED ref_cache
        \/ /\ l.op = "delete_ref" /\ l.pc = "invalidate"
           /\ ref_cache' = [n \in DOMAIN ref_cache \ {l.name} |-> ref_cache[n]]
           /\ CallStep(p, [l EXCEPT !.pc = "done"])
           /\ UNCHANGED inner

\* The call returned to the task, which may make its next call.
Return(p) ==
    /\ calls[p].pc = "done"
    /\ CallStep(p, IdleCall)
    /\ UNCHANGED <<inner, ref_cache>>

\* begin_transaction on the CachedBackend, which hands out the inner
\* backend's SqliteTransaction; then its update_ref(name, old, new) and
\* commit, by a task that runs alone.  An error drops the transaction.
TxUpdateRefCommit ==
    \E name \in RefNames, old \in {<<>>} \cup {<<h>> : h \in ObjectIds}, new \in ObjectIds :
        LET err == IF old = <<>> THEN NoErr
                   ELSE IF name \notin DOMAIN inner.refs THEN "Backend"
                   ELSE IF inner.refs[name] # old[1] THEN "RefUpdateConflict"
                   ELSE NoErr
        IN  /\ \A q \in Callers : calls[q].pc = "idle"
            /\ inner' = IF err = NoErr THEN [inner EXCEPT !.refs = (name :> new) @@ @]
                        ELSE inner
            /\ ret' = [op |-> "tx.update_ref", arg |-> <<name, old, new>>, err |-> err,
                       value |-> <<>>]
            /\ UNCHANGED <<objects, refs, current_position, log_chain, nextUuid, before,
                           seq, faults, compactions, inflight, base, observed>>
            /\ UNCHANGED <<storageVars, lockVars, reader>>
            /\ UNCHANGED <<ref_cache, calls>>

\* Two tasks share the CachedBackend.
SpecCached ==
    Init /\ [][\/ \E p \in Callers : UpdateRefStep(p)
               \/ \E p \in Callers : ReadRefStep(p)
               \/ \E p \in Callers : DeleteRefStep(p)
               \/ \E p \in Callers : Return(p)]_vars

\* One task makes its calls one after the other, transactions among them.
SpecCachedSeq ==
    Init /\ [][\/ UpdateRefStep(1)
               \/ ReadRefStep(1)
               \/ DeleteRefStep(1)
               \/ Return(1)
               \/ TxUpdateRefCommit]_vars

-----------------------------------------------------------------------------
(* MemoryStorage under concurrent tasks (crates/gitnext-storage/src/memory.rs):
   every call takes the std RwLock of the map it works on and drops it at
   the end of its scope.  A call is one step per lock taken and one step per
   scope left; a task that waits for a lock does not move.  No critical
   section can panic, so no lock is poisoned. *)

\* RwLock::read succeeds while no writer holds the lock, RwLock::write while
\* nobody holds it.
can_read(l, name) == l[name].writer = 0

can_write(l, name) == l[name].writer = 0 /\ l[name].readers = {}

lock_read(l, name, t) == [l EXCEPT ![name].readers = @ \cup {t}]

lock_write(l, name, t) == [l EXCEPT ![name].writer = t]

\* Mutant of unlock: the guard is never dropped.
unlock_leak(l, name, t) == l

\* The guard of task t goes out of scope.
unlock(l, name, t) ==
    [l EXCEPT ![name] = [writer |-> IF @.writer = t THEN 0 ELSE @.writer,
                         readers |-> @.readers \ {t}]]

\* Task t moves to k, the storage to m, the locks to l and the registry to r.
TaskStep(t, k, m, l, r) ==
    /\ tasks' = [tasks EXCEPT ![t] = k]
    /\ mem' = [objects |-> m.objects, refs |-> m.refs]
    /\ locks' = l
    /\ transactions' = r
    /\ UNCHANGED <<objects, refs, current_position, log_chain, nextUuid, ret, before, seq,
                   faults, compactions, inflight, base, observed, sql, memT, sqlT,
                   history, txns, cache>>
    /\ UNCHANGED backendVars

\* Task t calls op with arg, and waits for lock name at label pc.
CallBegins(t, op, arg, pc) ==
    [tasks[t] EXCEPT !.pc = pc, !.op = op, !.arg = arg, !.err = NoErr, !.n = @ + 1]

\* The call of task t returns.
CallReturns(t, err) == [tasks[t] EXCEPT !.pc = "idle", !.op = "", !.arg = <<>>, !.err = err]

CanCall(t) == tasks[t].pc = "idle" /\ tasks[t].n < MaxOps

\* store_object(id, object): the hash check, then objects.write() and insert.
LockedStoreObject(t) ==
    \/ /\ CanCall(t)
       /\ \E id \in ObjectIds, object \in LockedObjects :
              IF canonical_hash(object) # id
              THEN TaskStep(t, [CallReturns(t, "CorruptionDetected") EXCEPT !.n = @ + 1],
                            mem, locks, transactions)
              ELSE TaskStep(t, CallBegins(t, "store_object", <<id, object>>, "objects.write"),
                            mem, locks, transactions)
    \/ /\ tasks[t].op = "store_object" /\ tasks[t].pc = "objects.write"
       /\ can_write(locks, "objects")
       /\ TaskStep(t, [tasks[t] EXCEPT !.pc = "insert"], mem,
                   lock_write(locks, "objects", t), transactions)
    \/ /\ tasks[t].op = "store_object" /\ tasks[t].pc = "insert"
       /\ LET m == memory_store_object(Disk(mem), tasks[t].arg[1], tasks[t].arg[2])
          IN  TaskStep(t, CallReturns(t, m.err), m, unlock(locks, "objects", t), transactions)

\* load_object(id): objects.read() and get.
LockedLoadObject(t) ==
    \/ /\ CanCall(t)
       /\ \E id \in ObjectIds :
              TaskStep(t, CallBegins(t, "load_object", <<id>>, "objects.read"),
                       mem, locks, transactions)
    \/ /\ tasks[t].op = "load_object" /\ tasks[t].pc = "objects.read"
       /\ can_read(locks, "objects")
       /\ TaskStep(t, [tasks[t] EXCEPT !.pc = "get"], mem,
                   lock_read(locks, "objects", t), transactions)
    \/ /\ tasks[t].op = "load_object" /\ tasks[t].pc = "get"
       /\ TaskStep(t, CallReturns(t, NoErr), mem, unlock(locks, "objects", t), transactions)

\* list_refs(): references.read() and iter.
LockedListRefs(t) ==
    \/ /\ CanCall(t)
       /\ TaskStep(t, CallBegins(t, "list_refs", <<>>, "references.read"),
                   mem, locks, transactions)
    \/ /\ tasks[t].op = "list_refs" /\ tasks[t].pc = "references.read"
       /\ can_read(locks, "references")
       /\ TaskStep(t, [tasks[t] EXCEPT !.pc = "iter"], mem,
                   lock_read(locks, "references", t), transactions)
    \/ /\ tasks[t].op = "list_refs" /\ tasks[t].pc = "iter"
       /\ TaskStep(t, CallReturns(t, NoErr), mem, unlock(locks, "references", t), transactions)

\* update_ref(name, target): references.write() and insert.
LockedUpdateRef(t) ==
    \/ /\ CanCall(t)
       /\ \E name \in RefNames, target \in ObjectIds :
              TaskStep(t, CallBegins(t, "update_ref", <<name, target>>, "references.write"),
                       mem, locks, transactions)
    \/ /\ tasks[t].op = "update_ref" /\ tasks[t].pc = "references.write"
       /\ can_write(locks, "references")
       /\ TaskStep(t, [tasks[t] EXCEPT !.pc = "insert"], mem,
                   lock_write(locks, "references", t), transactions)
    \/ /\ tasks[t].op = "update_ref" /\ tasks[t].pc = "insert"
       /\ LET m == memory_update_ref(Disk(mem), tasks[t].arg[1], tasks[t].arg[2])
          IN  TaskStep(t, CallReturns(t, m.err), m, unlock(locks, "references", t), transactions)

\* transaction(): MemoryTransaction::new, then transactions.write() and the
\* insert into the registry.
LockedTransaction(t) ==
    \/ /\ CanCall(t) /\ tasks[t].tx = <<>>
       /\ TaskStep(t, CallBegins(t, "transaction", <<>>, "transactions.write"),
                   mem, locks, transactions)
    \/ /\ tasks[t].op = "transaction" /\ tasks[t].pc = "transactions.write"
       /\ can_write(locks, "transactions")
       /\ TaskStep(t, [tasks[t] EXCEPT !.pc = "insert"], mem,
                   lock_write(locks, "transactions", t), transactions)
    \/ /\ tasks[t].op = "transaction" /\ tasks[t].pc = "insert"
       /\ TaskStep(t, [CallReturns(t, NoErr) EXCEPT !.tx = <<MemoryTransaction>>], mem,
                   unlock(locks, "transactions", t), transactions \cup {t})

\* Transaction::store_object and then Transaction::update_ref stage in the
\* transaction the task owns, once per transaction; they take no lock.
LockedStage(t) ==
    /\ tasks[t].pc = "idle" /\ tasks[t].tx # <<>> /\ tasks[t].tx[1] = MemoryTransaction
    /\ \E id \in ObjectIds, name \in RefNames :
           LET a == memory_tx_store_object(tasks[t].tx[1], id, NameBlob("x"))
               b == memory_tx_update_ref(a.t, name, id)
           IN  TaskStep(t, [tasks[t] EXCEPT !.tx = <<b.t>>, !.err = a.err],
                        mem, locks, transactions)

\* Transaction::commit: objects.write(), then references.write() while the
\* first guard is held, the two loops, both guards dropped; then
\* transactions.write() and the removal from the registry.
LockedCommit(t) ==
    \/ /\ tasks[t].pc = "idle" /\ tasks[t].tx # <<>>
       /\ TaskStep(t, [CallBegins(t, "commit", <<>>, "objects.write") EXCEPT !.n = tasks[t].n],
                   mem, locks, transactions)
    \/ /\ tasks[t].op = "commit" /\ tasks[t].pc = "objects.write"
       /\ can_write(locks, "objects")
       /\ TaskStep(t, [tasks[t] EXCEPT !.pc = "references.write"], mem,
                   lock_write(locks, "objects", t), transactions)
    \/ /\ tasks[t].op = "commit" /\ tasks[t].pc = "references.write"
       /\ can_write(locks, "references")
       /\ TaskStep(t, [tasks[t] EXCEPT !.pc = "apply"], mem,
                   lock_write(locks, "references", t), transactions)
    \/ /\ tasks[t].op = "commit" /\ tasks[t].pc = "apply"
       /\ TaskStep(t, [tasks[t] EXCEPT !.pc = "transactions.write"],
                   memory_tx_commit(Disk(mem), tasks[t].tx[1]),
                   unlock(unlock(locks, "references", t), "objects", t), transactions)
    \/ /\ tasks[t].op = "commit" /\ tasks[t].pc = "transactions.write"
       /\ can_write(locks, "transactions")
       /\ TaskStep(t, [tasks[t] EXCEPT !.pc = "remove"], mem,
                   lock_write(locks, "transactions", t), transactions)
    \/ /\ tasks[t].op = "commit" /\ tasks[t].pc = "remove"
       /\ TaskStep(t, [CallReturns(t, NoErr) EXCEPT !.tx = <<>>], mem,
                   unlock(locks, "transactions", t), transactions \ {t})

\* Transaction::rollback: the staged changes are cleared, then
\* transactions.write() and the removal from the registry.
LockedRollback(t) ==
    \/ /\ tasks[t].pc = "idle" /\ tasks[t].tx # <<>>
       /\ TaskStep(t, [CallBegins(t, "rollback", <<>>, "transactions.write")
                           EXCEPT !.n = tasks[t].n, !.tx = <<MemoryTransaction>>],
                   mem, locks, transactions)
    \/ /\ tasks[t].op = "rollback" /\ tasks[t].pc = "transactions.write"
       /\ can_write(locks, "transactions")
       /\ TaskStep(t, [tasks[t] EXCEPT !.pc = "remove"], mem,
                   lock_write(locks, "transactions", t), transactions)
    \/ /\ tasks[t].op = "rollback" /\ tasks[t].pc = "remove"
       /\ TaskStep(t, [CallReturns(t, NoErr) EXCEPT !.tx = <<>>], mem,
                   unlock(locks, "transactions", t), transactions \ {t})

\* Any step of task t, and a step of a call of task t that has started.
TaskNext(t) ==
    \/ LockedStoreObject(t)
    \/ LockedLoadObject(t)
    \/ LockedListRefs(t)
    \/ LockedUpdateRef(t)
    \/ LockedTransaction(t)
    \/ LockedStage(t)
    \/ LockedCommit(t)
    \/ LockedRollback(t)

Running(t) == tasks[t].pc # "idle" /\ TaskNext(t)

NextLocks ==
    \/ \E t \in Tasks : LockedStoreObject(t)
    \/ \E t \in Tasks : LockedLoadObject(t)
    \/ \E t \in Tasks : LockedListRefs(t)
    \/ \E t \in Tasks : LockedUpdateRef(t)
    \/ \E t \in Tasks : LockedTransaction(t)
    \/ \E t \in Tasks : LockedStage(t)
    \/ \E t \in Tasks : LockedCommit(t)
    \/ \E t \in Tasks : LockedRollback(t)

\* The tasks share the MemoryStorage.
SpecLocks == Init /\ [][NextLocks]_vars

\* Every task is a thread the scheduler runs: a call that has started and
\* can take its next step takes it.  No task is made to start a call.
SpecLocksFair == SpecLocks /\ \A t \in Tasks : WF_vars(Running(t))

-----------------------------------------------------------------------------
(* BatchReader over a SqliteBackend (crates/gitnext-storage/src/lib.rs,
   crates/gitnext-storage-sqlite/src/lib.rs).  A Result is a record: err is
   empty and v the value, or err names the error and v is its field. *)

\* SqliteBackend::write_object: a plain INSERT, which the primary key of the
\* objects table rejects for a hash already stored.
backend_write_object(b, hash, object) ==
    IF hash \in DOMAIN b.objects THEN [b |-> b, err |-> "Backend"]
    ELSE [b |-> [b EXCEPT !.objects = (hash :> object) @@ @], err |-> NoErr]

\* SqliteBackend::read_object.
backend_read_object(b, hash) ==
    IF hash \in DOMAIN b.objects THEN [err |-> NoErr, v |-> b.objects[hash]]
    ELSE [err |-> "ObjectNotFound", v |-> hash]

\* Result<Vec<_>> collected from results in their order: the first error,
\* or all the values.
RECURSIVE collect(_)
collect(results) ==
    IF results = <<>> THEN [err |-> NoErr, v |-> <<>>]
    ELSE IF Head(results).err # NoErr THEN Head(results)
    ELSE LET rest == collect(Tail(results))
         IN  IF rest.err # NoErr THEN rest
             ELSE [err |-> NoErr, v |-> <<Head(results).v>> \o rest.v]

\* StorageBackend::read_objects, the sequential default: one read_object
\* after the other, pushed in the order of hashes, the first error returned.
read_objects(b, hashes) ==
    collect([i \in 1..Len(hashes) |-> backend_read_object(b, hashes[i])])

BatchStep(r, b, result) ==
    /\ reader' = r
    /\ inner' = b
    /\ ret' = result
    /\ UNCHANGED <<objects, refs, current_position, log_chain, nextUuid, before, seq,
                   faults, compactions, inflight, base, observed>>
    /\ UNCHANGED <<storageVars, lockVars, ref_cache, calls>>

\* write_object(hash, object) between two batches.
WriteObject ==
    /\ reader.pc = "idle"
    /\ \E object \in StoredObjects :
           LET w == backend_write_object(inner, canonical_hash(object), object)
           IN  BatchStep(reader, w.b,
                         [op |-> "write_object", arg |-> <<canonical_hash(object)>>,
                          err |-> w.err, value |-> <<>>])

\* BatchReader::read_objects(hashes) is called: the stream of the reads.
BatchCall ==
    /\ reader.pc = "idle"
    /\ \E n \in 1..MaxBatch, c \in 1..MaxConcurrency :
           \E hashes \in [1..n -> ObjectIds] :
               BatchStep([IdleReader EXCEPT !.pc = "buffer", !.hashes = hashes,
                                            !.concurrency = c],
                         inner, ret)

\* buffer_unordered takes the next read from the stream while fewer than
\* concurrency are in progress.
BatchSpawn ==
    /\ reader.pc = "buffer"
    /\ reader.next <= Len(reader.hashes)
    /\ Cardinality(reader.pending) < reader.concurrency
    /\ BatchStep([reader EXCEPT !.pending = @ \cup {reader.next}, !.next = @ + 1],
                 inner, ret)

\* One of the reads in progress completes, whichever is ready first, and
\* buffer_unordered yields its result.
BatchComplete ==
    /\ reader.pc = "buffer"
    /\ \/ reader.next > Len(reader.hashes)
       \/ Cardinality(reader.pending) = reader.concurrency
    /\ \E i \in reader.pending :
           BatchStep([reader EXCEPT !.pending = @ \ {i},
                                    !.results = Append(@, backend_read_object(inner, reader.hashes[i]))],
                     inner, ret)

\* The stream has ended: the results are collected in the order they were
\* yielded, and read_objects returns.
BatchCollect ==
    /\ reader.pc = "buffer"
    /\ reader.next > Len(reader.hashes) /\ reader.pending = {}
    /\ LET r == collect(reader.results)
       IN  BatchStep(IdleReader, inner,
                     [op |-> "BatchReader::read_objects",
                      arg |-> <<reader.hashes, reader.concurrency>>,
                      err |-> r.err, value |-> r.v])

SpecBatch ==
    Init /\ [][WriteObject \/ BatchCall \/ BatchSpawn \/ BatchComplete \/ BatchCollect]_vars

-----------------------------------------------------------------------------
(* Claims *)

InitVisible ==
    LET s == init(Store(<<>>, <<>>, 0, <<>>, 0), 1)
    IN  Visible(s.objects, s.refs)

\* The entry the chain names at 1-based index i, read back from storage.
EntryAt(os, rs, c, i) == os[rs[log_ref(c[i])]].payload.v

LogRefs(rs) == {log_ref(u) : u \in 1..MaxUuid + 1} \cap DOMAIN rs

SeqRange(c) == {c[i] : i \in 1..Len(c)}

\* C1: after init and a run of successful create_branch, delete_branch,
\* switch_branch and commit calls, one undo per performed operation restores
\* HEAD, every refs/heads/* reference and the tracked current branch to their
\* values before the run, and as many redos then restore the values after it.
C1_UndoRedoInverse ==
    /\ (seq.phase = "undo" /\ seq.u = seq.n) => Visible(objects, refs) = InitVisible
    /\ (seq.phase = "redo" /\ seq.r = seq.n) => Visible(objects, refs) = seq.after

\* C2: a single undo right after a successful create_branch, switch_branch or
\* commit restores HEAD, the log position and the whole get_all_refs map to
\* their values immediately before that operation.
C2_UndoRestoresExactState ==
    [][(/\ ret.op \in {"create_branch", "switch_branch", "commit"}
        /\ ret.err = NoErr
        /\ ret'.op = "undo")
       => Snapshot(objects', refs', current_position') = before]_vars

\* C3: record with cursor p and a chain c of length n leaves the chain
\* c[0..p] followed by the new entry id and the cursor at p + 1, so the
\* entries c[p..n) are gone, and redo returns None after it.
C3_RecordTruncatesAndAppends ==
    [][(ret'.op \in MutOps /\ ret'.err = NoErr)
       => /\ log_chain' = Append(SubSeq(log_chain, 1, current_position), nextUuid)
          /\ current_position' = current_position + 1
          /\ \A i \in current_position + 1..Len(log_chain) :
                log_chain[i] \notin SeqRange(log_chain')
          /\ LET r == redo(Store(objects', refs', current_position', log_chain', 0))
             IN  ~Failed(r.s) /\ r.v = <<>>]_vars

\* A record that cut undone entries off the chain.
C3_Witness ==
    /\ ret.op = "create_branch"
    /\ ret.err = NoErr
    /\ Len(log_chain) < nextUuid - 1
    /\ current_position = Len(log_chain)

\* C4: the cursor stays within the chain, 0 <= current_position <= len,
\* through record, undo, redo, compact and load_chain.
C4_CursorWithinChain ==
    /\ current_position >= 0
    /\ current_position <= Len(log_chain)

\* A compaction that dropped the entry under the cursor and reset the cursor.
C4_Witness ==
    /\ ret.op = "compact"
    /\ ret.err = NoErr
    /\ current_position = 0
    /\ Len(log_chain) > 0

\* C5: undo at cursor 0 returns None and changes no cursor, chain or
\* reference; an undo that succeeds at cursor p > 0 returns the operation of
\* the entry at index p-1, moves the cursor to p-1 and leaves the chain alone.
C5_UndoCursorLaw ==
    [][ret'.op = "undo"
       => IF current_position = 0
          THEN /\ ret'.err = NoErr
               /\ ret'.value = <<>>
               /\ UNCHANGED <<current_position, log_chain, refs>>
          ELSE ret'.err = NoErr
               => /\ ret'.value =
                        <<EntryAt(objects, refs, log_chain, current_position).operation>>
                  /\ current_position' = current_position - 1
                  /\ log_chain' = log_chain]_vars

\* undo was called with the cursor at 0 on a chain that still has entries.
C5_Witness ==
    /\ ret.op = "undo"
    /\ ret.err = NoErr
    /\ ret.value = <<>>
    /\ current_position = 0
    /\ Len(log_chain) > 0

\* C6: redo at the tip returns None and changes no cursor, chain or
\* reference; a redo that succeeds at cursor p < len returns the operation of
\* the entry at index p, moves the cursor to p+1 and leaves the chain alone.
C6_RedoCursorLaw ==
    [][ret'.op = "redo"
       => IF current_position >= Len(log_chain)
          THEN /\ ret'.err = NoErr
               /\ ret'.value = <<>>
               /\ UNCHANGED <<current_position, log_chain, refs>>
          ELSE ret'.err = NoErr
               => /\ ret'.value =
                        <<EntryAt(objects, refs, log_chain, current_position + 1).operation>>
                  /\ current_position' = current_position + 1
                  /\ log_chain' = log_chain]_vars

\* A redo that succeeded below the tip: another undone entry is still ahead.
C6_Witness ==
    /\ ret.op = "redo"
    /\ ret.err = NoErr
    /\ ret.value # <<>>
    /\ current_position < Len(log_chain)

OpKind(op) ==
    CASE op = "create_branch" -> "CreateBranch"
      [] op = "delete_branch" -> "DeleteBranch"
      [] op = "switch_branch" -> "SwitchBranch"
      [] op = "commit" -> "Commit"

\* C7: every successful create_branch, delete_branch, switch_branch or commit
\* adds exactly one entry, its own, to the log and leaves the cursor at the
\* chain's length, wherever the cursor was before the call.
C7_OneEntryPerOperation ==
    [][(ret'.op \in MutOps /\ ret'.err = NoErr)
       => /\ Len(log_chain') = current_position + 1
          /\ current_position' = Len(log_chain')
          /\ LogRefs(refs') \ LogRefs(refs) = {log_ref(log_chain'[Len(log_chain')])}
          /\ LogRefs(refs) \subseteq LogRefs(refs')
          /\ EntryAt(objects', refs', log_chain', Len(log_chain')).operation.kind
                = OpKind(ret'.op)]_vars

\* A commit recorded while undone entries were ahead of the cursor.
C7_Witness ==
    /\ ret.op = "commit"
    /\ ret.err = NoErr
    /\ current_position = Len(log_chain)
    /\ Cardinality(LogRefs(refs)) > Len(log_chain)

\* C8: when a storage call fails during create_branch, delete_branch,
\* switch_branch, commit, undo or redo, the operation returns an error and the
\* references, the cursor, the chain and the chain stored under
\* refs/logs/chain are as before the call; a successful operation has its
\* entry in the log.
C8_FailureLeavesNoTrace ==
    [][/\ (ret'.op \in MutOps \cup {"undo", "redo"} /\ ret'.err # NoErr)
          => /\ refs' = refs
             /\ current_position' = current_position
             /\ log_chain' = log_chain
             /\ Persisted(objects', refs') = Persisted(objects, refs)
       /\ (ret'.op \in MutOps /\ ret'.err = NoErr)
          => /\ Len(log_chain') > 0
             /\ EntryAt(objects', refs', log_chain', Len(log_chain')).operation.kind
                   = OpKind(ret'.op)]_vars

\* C9: right after a successful switch_branch(x), delete_branch(x) returns an
\* error, refs/heads/x still exists with its target, and the chain and the
\* cursor are unchanged.
C9_CannotDeleteCurrentBranch ==
    [][(/\ ret.op = "switch_branch"
        /\ ret.err = NoErr
        /\ ret'.op = "delete_branch"
        /\ ret'.arg = ret.arg)
       => /\ ret'.err # NoErr
          /\ branch_ref(ret.arg) \in DOMAIN refs'
          /\ refs' = refs
          /\ log_chain' = log_chain
          /\ current_position' = current_position]_vars

\* delete_branch refused to delete the branch that switch_branch made current.
C9_Witness ==
    /\ ret.op = "delete_branch"
    /\ ret.err = "CannotDeleteCurrent"
    /\ get_current_branch(Cur(0)).v = <<ret.arg>>
    /\ branch_ref(ret.arg) \in DOMAIN refs

\* C10: create_branch(name, target) on an existing refs/heads/<name> fails
\* with RefExists, keeps the reference's target and appends no log entry.
C10_CreateExistingBranchFails ==
    [][(ret'.op = "create_branch" /\ branch_ref(ret'.arg) \in DOMAIN refs)
       => /\ ret'.err = "RefExists"
          /\ refs'[branch_ref(ret'.arg)] = refs[branch_ref(ret'.arg)]
          /\ log_chain' = log_chain]_vars

C12_MissingBranchRefNotFound ==
    [][(/\ ret'.op \in {"switch_branch", "delete_branch"}
        /\ branch_ref(ret'.arg) \notin DOMAIN refs)
       => /\ ret'.err = "RefNotFound"
          /\ refs' = refs
          /\ objects' = objects
          /\ log_chain' = log_chain
          /\ current_position' = current_position]_vars

\* switch_branch was refused for a branch that does not exist.
C12_Witness ==
    /\ ret.op = "switch_branch"
    /\ ret.err = "RefNotFound"
    /\ branch_ref(ret.arg) \notin DOMAIN refs

\* C13: commit advances HEAD and the tracked current branch atomically: no
\* list_refs of a concurrent reader shows HEAD at a commit that the current
\* branch's reference does not point at yet.
C13_CommitAdvancesAtomically ==
    LET b == get_current_branch(Store(objects, observed, 0, <<>>, 0)).v
    IN  (observed # <<>> /\ b # <<>>) => observed["HEAD"] = observed[branch_ref(b[1])]

\* The kind and the before and after heads of every entry of chain c, in order.
LogHeads(os, rs, c) ==
    [i \in 1..Len(c) |->
        LET op == EntryAt(os, rs, c, i).operation
        IN  <<op.kind, op.before_head, op.after_head>>]

\* What serializability compares: the visible references, the log and the cursor.
Outcome(s) ==
    [visible |-> Visible(s.objects, s.refs),
     log |-> LogHeads(s.objects, s.refs, s.chain),
     pos |-> s.pos]

RECURSIVE Serial(_, _)
\* The commits of the callers in order o, one after the other, from state s.
Serial(s, o) ==
    IF o = <<>> THEN s
    ELSE Serial(commit(s, Head(o), Len(s.chain) + 1), Tail(o))

\* C14: concurrent commit calls on one Repository are serializable: when they
\* have all returned, the references, the log (each entry's before and after
\* heads, in chain order) and the cursor are those of one of the sequential
\* orders of the same calls.
C14_ConcurrentCommitsSerializable ==
    LET D == {p \in Callers : inflight[p].pc = "done"}
        orders == {o \in [1..Cardinality(D) -> D] : \A i, j \in DOMAIN o : o[i] = o[j] => i = j}
    IN  (base # <<>> /\ \A p \in Callers : inflight[p].pc \in {"idle", "done"})
        => Outcome(Cur(0)) \in {Outcome(Serial(base[1], o)) : o \in orders}

\* What any caller reads from the two backends: list_refs and every load_object.
Reads(m, q) ==
    <<memory_list_refs(Disk(m)).v, [id \in ObjectIds |-> memory_load_object(Disk(m), id).v],
      list_refs(Disk(q)).v, [id \in ObjectIds |-> load_object(Disk(q), id).v]>>

\* C15: store_object(id, o) with id different from o.canonical_hash() fails
\* on MemoryStorage and on SqliteStorage, directly and inside a transaction,
\* and leaves the stored objects, the references and the staged set as they
\* were; no object is ever stored under an id that is not its hash.
C15_AddressRefusal ==
    [][/\ (/\ ret'.op \in {"store_object", "tx.store_object"}
           /\ canonical_hash(ret'.arg[2]) # ret'.arg[1])
          => /\ ret'.err[1] # NoErr
             /\ ret'.err[2] # NoErr
             /\ UNCHANGED <<mem, sql, memT, sqlT>>
       /\ \A id \in DOMAIN mem'.objects : canonical_hash(mem'.objects[id]) = id
       /\ \A id \in DOMAIN sql'.objects : canonical_hash(sql'.objects[id]) = id]_vars

\* A transaction refused an object staged under another object's id.
C15_Witness ==
    /\ ret.op = "tx.store_object"
    /\ canonical_hash(ret.arg[2]) # ret.arg[1]
    /\ ret.err = <<"CorruptionDetected", "CorruptionDetected">>
    /\ memT # <<>>
    /\ ret.arg[1] \notin DOMAIN memT[1].staged_objects

\* C16: what other callers read (list_refs, load_object) does not change
\* when a transaction is begun, stages or is rolled back, and after commit
\* returns they read every staged object and, for every staged name, the
\* target staged last: the staged set becomes visible in one step.
C16_TransactionAtomicity ==
    [][/\ ret'.op \in {"transaction", "tx.store_object", "tx.update_ref", "tx.rollback"}
          => Reads(mem', sql') = Reads(mem, sql)
       /\ ret'.op = "tx.commit"
          => LET r == Reads(mem', sql')
                 ops == sqlT[1].staged_operations
             IN  /\ \A id \in DOMAIN memT[1].staged_objects :
                        r[2][id] = <<memT[1].staged_objects[id]>>
                 /\ \A name \in DOMAIN memT[1].staged_refs :
                        /\ name \in DOMAIN r[1]
                        /\ r[1][name] = memT[1].staged_refs[name]
                 /\ \A i \in DOMAIN ops :
                        IF ops[i].op = "StoreObject"
                        THEN r[4][ops[i].id] = <<ops[i].object>>
                        ELSE (\A j \in DOMAIN ops :
                                 (j > i /\ ops[j].op = "UpdateRef") => ops[j].name # ops[i].name)
                             => /\ ops[i].name \in DOMAIN r[3]
                                /\ r[3][ops[i].name] = ops[i].target]_vars

\* A committed transaction that staged an object and a reference: both are read.
C16_Witness ==
    /\ ret.op = "tx.commit"
    /\ ret.arg[1].staged_objects # <<>>
    /\ ret.arg[1].staged_refs # <<>>
    /\ \A id \in DOMAIN ret.arg[1].staged_objects : id \in DOMAIN mem.objects \cap DOMAIN sql.objects
    /\ \A name \in DOMAIN ret.arg[1].staged_refs : name \in DOMAIN mem.refs \cap DOMAIN sql.refs

\* C17: after any script of store_object, update_ref and transaction calls
\* run on both backends from empty, MemoryStorage and SqliteStorage list the
\* same (name, target) references and load the same object for every id.
C17_BackendEquivalence ==
    /\ memory_list_refs(Disk(mem)).v = list_refs(Disk(sql)).v
    /\ \A id \in ObjectIds : memory_load_object(Disk(mem), id).v = load_object(Disk(sql), id).v

\* A committed transaction that staged two different targets for one name.
C17_Witness ==
    /\ ret.op = "tx.commit"
    /\ \E i, j \in DOMAIN ret.arg[2].staged_operations :
          LET ops == ret.arg[2].staged_operations
          IN  /\ i < j
              /\ ops[i].op = "UpdateRef"
              /\ ops[j].op = "UpdateRef"
              /\ ops[i].name = ops[j].name
              /\ ops[i].target # ops[j].target
              /\ sql.refs[ops[j].name] = ops[j].target
              /\ mem.refs[ops[j].name] = ops[j].target

\* C18: store_object(id, o) for an (id, o) that is already stored succeeds
\* and leaves the stored objects and the references of both backends as
\* they were.
C18_StoreObjectIdempotent ==
    [][(/\ ret'.op = "store_object"
        /\ ret'.arg[1] \in DOMAIN mem.objects \cap DOMAIN sql.objects
        /\ mem.objects[ret'.arg[1]] = ret'.arg[2]
        /\ sql.objects[ret'.arg[1]] = ret'.arg[2])
       => /\ ret'.err = <<NoErr, NoErr>>
          /\ UNCHANGED <<mem, sql>>
          /\ Reads(mem', sql') = Reads(mem, sql)]_vars

\* store_object succeeded for an object that load_object had returned before.
C18_Witness ==
    /\ ret.op = "store_object"
    /\ ret.err = <<NoErr, NoErr>>
    /\ ret.arg[1] \in DOMAIN history.loaded[1] \cap DOMAIN history.loaded[2]
    /\ history.loaded[1][ret.arg[1]] = ret.arg[2]
    /\ mem.objects[ret.arg[1]] = ret.arg[2]
    /\ sql.objects[ret.arg[1]] = ret.arg[2]

\* C19: update_ref(name, a) and update_ref(name, b) by different callers, in
\* either order, leave name at the target written last, one of a and b, and
\* every list_refs shows name absent or at a target that was written to it,
\* never any other value.
C19_ReferenceAtomicity ==
    [][/\ ret'.op = "update_ref"
          => /\ memory_list_refs(Disk(mem')).v[ret'.arg[1]] = ret'.arg[2]
             /\ list_refs(Disk(sql')).v[ret'.arg[1]] = ret'.arg[2]
       /\ ret'.op = "list_refs"
          => \A b \in {1, 2} : \A name \in DOMAIN ret'.value[b] :
                <<name, ret'.value[b][name]>> \in history.written]_vars

\* list_refs after two different targets were written to one name.
C19_Witness ==
    /\ ret.op = "list_refs"
    /\ \E name \in DOMAIN ret.value[1] \cap DOMAIN ret.value[2] :
          /\ Cardinality({w \in history.written : w[1] = name}) = 2
          /\ ret.value[1][name] = ret.value[2][name]

\* C20: once load_object(id) has returned Some, every later load_object(id)
\* on the same storage returns Some with the same object.
C20_LoadObjectMonotone ==
    [][(ret'.op = "load_object")
       => /\ ret'.arg[1] \in DOMAIN history.loaded[1]
             => ret'.value[1] = <<history.loaded[1][ret'.arg[1]]>>
          /\ ret'.arg[1] \in DOMAIN history.loaded[2]
             => ret'.value[2] = <<history.loaded[2][ret'.arg[1]]>>]_vars

\* An id loaded again after it was found, with a transaction committed or
\* rolled back.
C20_Witness ==
    /\ ret.op = "load_object"
    /\ ret.arg[1] \in history.again
    /\ ret.value[1] # <<>>
    /\ ret.value[2] # <<>>
    /\ txns > 0
    /\ memT = <<>>

C22_DeriveGitHashFollowsAlgorithm ==
    ret.op = "derive_git_hash" =>
        ret.value = from_git_bytes(serialize_to_git_format(ret.arg[1]), ret.arg[2])

\* C23: after any sequence of init, create_branch, delete_branch,
\* switch_branch, commit, undo, redo and compact calls, Repository::open on
\* the same storage loads a cursor and a chain equal to the in-memory cursor
\* and chain of the repository that made the calls.
C23_OpenRestoresLog ==
    Persisted(objects, refs) = <<current_position, log_chain>>

\* The log was compacted and an undo then moved the cursor below the end of
\* the chain; open returns that cursor and chain.
C23_Witness ==
    /\ compactions = 1
    /\ ret.op = "undo" /\ ret.err = NoErr
    /\ 0 < current_position /\ current_position < Len(log_chain)
    /\ Persisted(objects, refs) = <<current_position, log_chain>>

\* C24: the entry recorded by create_branch, delete_branch, switch_branch or
\* commit holds in before_state HEAD and the direct references as they were
\* before the operation changed anything, and in after_state HEAD and the
\* direct references as they are once the operation's reference changes are
\* applied (the references record then writes for the log are not part of it).
C24_EntryStatesBracketOperation ==
    (ret.op \in MutOps /\ ret.err = NoErr) =>
        LET e == EntryAt(objects, refs, log_chain, current_position)
            applied == [r \in DOMAIN refs \ {log_ref(e.id)} |->
                           IF r = chain_ref THEN before.refs[r] ELSE refs[r]]
        IN  /\ e.before_state = RepositoryState(before.head, before.refs)
            /\ e.after_state = RepositoryState(head_ok(Cur(0)).v, applied)

\* C25: every tree object that store_object accepted and persisted, built by
\* Tree::new from any list of entries, has strictly ascending entry names
\* with no duplicates: Tree::validate accepts it.
C25_StoredTreesStrictlySorted ==
    \A b \in {mem, sql} :
        \A id \in DOMAIN b.objects :
            b.objects[id].kind = "tree" => validate(b.objects[id])

\* C26: format_signature renders a timezone offset of m minutes,
\* -1440 <= m <= 1440, as a sign, two-digit hours (|m| div 60) and two-digit
\* minutes (|m| mod 60): 0 gives +0000 and -300 gives -0500.
C26_OffsetRenderedAsHoursMinutes ==
    ret.op = "format_signature" =>
        LET m == ret.arg.timezone_offset
            a == IF m < 0 THEN -m ELSE m
            two(d) == (IF d < 10 THEN "0" ELSE "") \o ToString(d)
        IN  ret.value = ret.arg.name \o " <" \o ret.arg.email \o "> "
                            \o ToString(ret.arg.timestamp) \o " "
                            \o (IF m < 0 THEN "-" ELSE "+") \o two(a \div 60) \o two(a % 60)

\* C27: undo of a SwitchBranch entry sets HEAD back to the entry's
\* before_head and restores the current-branch tracking, so that
\* get_current_branch returns what it returned immediately before
\* switch_branch was called.
C27_UndoSwitchRestoresBranch ==
    [][(/\ ret.op = "switch_branch" /\ ret.err = NoErr
        /\ ret'.op = "undo" /\ ret'.err = NoErr)
       => /\ ret'.value[1].kind = "SwitchBranch"
          /\ refs'["HEAD"] = ret'.value[1].before_head
          /\ head(Store(objects', refs', 0, <<>>, 0)).v = before.head
          /\ get_current_branch(Store(objects', refs', 0, <<>>, 0)).v
                 = get_current_branch(Store(objects, before.refs, 0, <<>>, 0)).v]_vars

\* C28: create_branch(name, target) with a target for which no object is
\* stored fails, creating no reference and appending no entry: a
\* create_branch that returned Ok recorded a stored target, and every
\* refs/heads/* reference points to an object present in storage.
C28_BranchTargetsExist ==
    /\ (ret.op = "create_branch" /\ ret.err = NoErr) =>
           EntryAt(objects, refs, log_chain, current_position).operation.target
               \in DOMAIN objects
    /\ \A b \in BranchNames :
           branch_ref(b) \in DOMAIN refs => refs[branch_ref(b)] \in DOMAIN objects

\* C29: after any sequence of operations the number of
\* refs/logs/operations/* references equals the number of entries in the
\* log chain (each recorded operation adds one, a truncated entry is gone),
\* and there is exactly one refs/logs/chain reference.
C29_LogRefsMatchChain ==
    /\ Cardinality(LogRefs(refs)) = Len(log_chain)
    /\ chain_ref \in DOMAIN refs

\* C30: compact(keep) removes only an oldest prefix: the new chain is the
\* last min(len, keep) entries of the former chain in the same order, the
\* stored record of every remaining entry is unchanged, and the new cursor
\* and chain are what refs/logs/chain holds.
C30_CompactKeepsNewestSuffix ==
    [][(ret'.op = "compact" /\ ret'.err = NoErr) =>
         \E keep \in 0..Len(log_chain) :
            LET len == Len(log_chain)
                kept == IF keep < len THEN keep ELSE len
            IN  /\ ret'.arg = ToString(keep)
                /\ log_chain' = SubSeq(log_chain, len - kept + 1, len)
                /\ \A i \in 1..kept :
                       EntryAt(objects', refs', log_chain', i)
                           = EntryAt(objects, refs, log_chain, len - kept + i)
                /\ Persisted(objects', refs') = <<current_position', log_chain'>>]_vars

\* compact(1) removed the oldest entries of a longer chain: the one entry
\* left is not the init entry, and it is the chain that is persisted.
C30_Witness ==
    /\ ret.op = "compact" /\ ret.arg = "1" /\ ret.err = NoErr
    /\ Len(log_chain) = 1 /\ log_chain[1] > 1
    /\ Persisted(objects, refs) = <<current_position, log_chain>>

\* C31: SqliteBackend.update_ref(name, Some(old), new) is an atomic
\* compare-and-swap: its write takes effect only if the reference equals old
\* at that moment, so of two concurrent calls with the same old and different
\* new values at most one succeeds.
C31_UpdateRefCompareAndSwap ==
    [][\A p \in Callers :
          (/\ calls[p].op = "update_ref" /\ calls[p].pc = "inserted"
           /\ calls'[p].pc = "invalidate"
           /\ calls[p].old # <<>>)
          => /\ calls[p].name \in DOMAIN inner.refs
             /\ inner.refs[calls[p].name] = calls[p].old[1]]_vars

\* C32: with CachedBackend, once update_ref(name, _, new) has returned, a
\* read_ref(name) that starts afterwards returns new until a later update of
\* name, whatever read_ref ran concurrently with the update.  While no
\* update_ref or delete_ref is in flight the reference holds the new value of
\* the last update, and a read_ref that starts then returns the cache entry
\* if there is one: the entry is that value.
C32_ReadAfterUpdateReturnsNew ==
    (\A p \in Callers :
        calls[p].op \in {"update_ref", "delete_ref"} => calls[p].pc = "done")
    => \A name \in DOMAIN inner.refs \cap DOMAIN ref_cache :
           ref_cache[name] = inner.refs[name]

\* C33: CachedBackend is observationally equal to its inner backend for
\* references: after any sequence of read_ref, update_ref, delete_ref and
\* committed transactions from begin_transaction, made one after the other,
\* read_ref(name) on the CachedBackend (the cache entry, if there is one)
\* returns what read_ref(name) on the inner backend returns.
C33_CacheEqualsInner ==
    (\A p \in Callers : calls[p].pc = "idle")
    => \A name \in DOMAIN ref_cache :
           name \in DOMAIN inner.refs /\ ref_cache[name] = inner.refs[name]

C35_CurrentBranchIsHead ==
    LET c == get_current_branch(Cur(0)).v
    IN  c # <<>> =>
            /\ branch_ref(c[1]) \in DOMAIN refs
            /\ refs[branch_ref(c[1])] = refs["HEAD"]

\* C36: in a sequential run without faults on a repository created by init,
\* repeated undo calls succeed until only the init entry remains applied: no
\* undo with the cursor above 1 returns an error (a failed undo leaves the
\* cursor where it was).
C36_UndoSucceedsAboveInit ==
    (ret.op = "undo" /\ ret.err # NoErr) => current_position <= 1

\* C37: compact never makes redo skip an undone entry: if the cursor was p
\* in a chain of length n and compact dropped the r = n - keep oldest
\* entries, the new cursor is p - r and the entry the next redo applies is
\* the one it would have applied before compact.
C37_CompactKeepsRedoTarget ==
    [][(ret'.op = "compact" /\ ret'.err = NoErr) =>
         LET r == Len(log_chain) - Len(log_chain')
         IN  /\ current_position' = current_position - r
             /\ current_position < Len(log_chain) =>
                    /\ current_position' < Len(log_chain')
                    /\ log_chain'[current_position' + 1] = log_chain[current_position + 1]]_vars

\* C38: no interleaving of concurrent MemoryStorage operations deadlocks:
\* every operation a task has started eventually completes.
C38_OperationsComplete ==
    \A t \in Tasks : (tasks[t].pc # "idle") ~> (tasks[t].pc = "idle")

\* A commit holds objects and waits for references, which an update_ref
\* holds, while a third task waits for objects.
C38_Witness ==
    \E t, u, v \in Tasks :
        /\ tasks[t].op = "commit" /\ tasks[t].pc = "references.write"
        /\ locks["objects"].writer = t
        /\ tasks[u].op = "update_ref" /\ locks["references"].writer = u
        /\ tasks[v].pc \in {"objects.write", "objects.read"} /\ v \notin {t, u}

\* C39: BatchReader::read_objects returns the objects in the order of the
\* requested hashes, exactly as the sequential StorageBackend::read_objects
\* does, for every completion order of the concurrent reads.
C39_BatchReaderKeepsOrder ==
    ret.op = "BatchReader::read_objects" =>
        [err |-> ret.err, v |-> ret.value] = read_objects(inner, ret.arg[1])

\* No switch_branch has succeeded: a successful switch_branch stores the blob
\* of the branch's name, and no operation removes an object.
NoSwitchYet == \A b \in BranchNames : canonical_hash(NameBlob(b)) \notin DOMAIN objects

\* The references outside refs/logs/.
NonLogRefs(rs) == DOMAIN rs \ (LogRefs(rs) \cup {chain_ref})

\* C40: after init and before any switch_branch has succeeded, commit changes
\* only HEAD among the non-log references: refs/heads/main and every other
\* refs/heads/* reference keep their targets.
C40_CommitMovesOnlyHead ==
    [][(ret'.op = "commit" /\ ret'.err = NoErr /\ NoSwitchYet) =>
         /\ NonLogRefs(refs') = NonLogRefs(refs)
         /\ \A r \in NonLogRefs(refs) \ {"HEAD"} : refs'[r] = refs[r]]_vars

\* A commit before any switch_branch has moved HEAD away from refs/heads/main
\* while a second branch exists.
C40_Witness ==
    /\ ret.op = "commit" /\ ret.err = NoErr /\ NoSwitchYet
    /\ refs["HEAD"] # refs[branch_ref("main")]
    /\ branch_ref("a") \in DOMAIN refs

====
